---- MODULE Spec2Model ----
(***************************************************************************)
(* A model of the IEEE paper formatter: the formatting rules engine, the   *)
(* citation converter, the issue detector, the compliance scorer, the      *)
(* change tracker and the grammar corrector.                               *)
(*                                                                         *)
(* Python strings are TLA+ strings (Len, \o and SubSeq act on them).       *)
(* Optional[x] is <<>> for None and <<x>> for a present value.             *)
(***************************************************************************)
EXTENDS Integers, Sequences, FiniteSets, TLC

VARIABLES
    pc,                    \* position of the running operation
    document,              \* sections of the ParsedDocument handed to the operation
    formatted,             \* the FormattedDocument: [sections, metadata, compliance_score]
    issues,                \* list of Issue records
    compliance,            \* ComplianceScore record, <<>> before calculate
    fixes,                 \* ChangeTracker.fixes
    citation_map,          \* CitationConverter.citation_map, a set of <<key, number>>
    next_citation_number,  \* CitationConverter.next_citation_number
    returned,              \* sections returned by the last converter / corrector call
    enabled,               \* GrammarCorrector.enabled
    outcomes,              \* outcomes of the service calls made by GrammarCorrector.correct
    calls,                 \* number of converter calls made so far
    edits,                 \* the UserEdits handed to UserEditsApplicator.apply_edits
    allow_auto_generation, \* UserEditsApplicator.allow_auto_generation
    paragraphs,            \* doc.paragraphs of the .docx file handed to DocumentParser.parse
    metadata               \* metadata of the ParsedDocument handed to the operation

vars == <<pc, document, formatted, issues, compliance, fixes,
          citation_map, next_citation_number, returned, enabled,
          outcomes, calls, edits, allow_auto_generation, paragraphs, metadata>>

----------------------------------------------------------------------------
(* Bounds of the model                                                     *)

MaxSections == 3

\* most HIGH issues handed to the scorer (five already take the whole penalty)
MaxHighIssues == 6

\* most calls made on one CitationConverter
MaxCalls == 3

\* most sections on each side of a ChangeTracker comparison
MaxTracked == 2

\* most sections handed to GrammarCorrector.correct
MaxCorrected == 2

\* most sections of a document handed to UserEditsApplicator.apply_edits
MaxEdited == 2

\* most paragraphs of a file handed to DocumentParser.parse
MaxParagraphs == 4

\* most required sections that an uploaded paper lacks, the paper that is a title
\* alone apart
MaxMissing == 3

\* most calls of the correction service in one upload
MaxServiceCalls == 4

----------------------------------------------------------------------------
(* Optional values                                                         *)

None == <<>>
Some(x) == <<x>>

----------------------------------------------------------------------------
(* Python dicts with string keys are functions on their set of keys        *)

EmptyDict == <<>>

\* {**base, **extra}: the keys of both, a key of both with the value of extra
Merge(base, extra) ==
    [k \in DOMAIN base \cup DOMAIN extra |->
        IF k \in DOMAIN extra THEN extra[k] ELSE base[k]]
IsSome(o) == o # <<>>
Val(o) == o[1]

----------------------------------------------------------------------------
(* Python string primitives                                                *)

UpperChars == "ABCDEFGHIJKLMNOPQRSTUVWXYZ"
LowerChars == "abcdefghijklmnopqrstuvwxyz"
DigitChars == "0123456789"

\* the character s[i-1] of Python, "" outside the string
Ch(s, i) == IF 1 <= i /\ i <= Len(s) THEN SubSeq(s, i, i) ELSE ""

From(s, i) == SubSeq(s, i, Len(s))

CharSet(s) == {Ch(s, i) : i \in 1..Len(s)}

\* Text is over the ASCII characters, the two other white-space characters below
\* U+0100 and the bullet U+2022. The white space of str.strip, str.split and \s:
\* the characters c with c.isspace(), which are the space, \t, \n, \r, \f and, written
\* as the characters themselves, \x0b, \x1c, \x1d, \x1e, \x1f, \x85 and \xa0
SpaceChars == " \t\n\r\f "

\* the bullet U+2022 of the References entries; a string of the model holds no
\* character above U+00FF, so the bullet is written as \x95, its code in Windows-1252
Bullet == ""

\* character classes of the regular expressions: [A-Z], [a-z], \d, [ivxlcdm], \s
UpperSet == CharSet(UpperChars)
LowerSet == CharSet(LowerChars)
DigitSet == CharSet(DigitChars)
RomanSet == CharSet("ivxlcdm")
SpaceSet == CharSet(SpaceChars)

\* s.find(c) + 1 for a character c: index of its first occurrence, 0 if absent
IndexIn(c, s) ==
    IF \E i \in 1..Len(s) : Ch(s, i) = c
    THEN CHOOSE i \in 1..Len(s) : Ch(s, i) = c /\ \A j \in 1..(i - 1) : Ch(s, j) # c
    ELSE 0

IsSpace(c) == c \in SpaceSet
IsDigit(c) == c \in DigitSet
IsUpper(c) == c \in UpperSet
IsLower(c) == c \in LowerSet

ToLower == [c \in UpperSet |-> Ch(LowerChars, IndexIn(c, UpperChars))]
ToUpper == [c \in LowerSet |-> Ch(UpperChars, IndexIn(c, LowerChars))]

LowerCh(c) == IF c \in UpperSet THEN ToLower[c] ELSE c

UpperCh(c) == IF c \in LowerSet THEN ToUpper[c] ELSE c

\* "".join(chars[lo..hi]) for a sequence of strings
RECURSIVE Concat(_, _, _)
Concat(chars, lo, hi) ==
    IF lo > hi THEN ""
    ELSE IF lo = hi THEN chars[lo]
    ELSE LET mid == (lo + hi) \div 2
         IN  Concat(chars, lo, mid) \o Concat(chars, mid + 1, hi)

\* str.lower() and str.upper()
Lower(s) == Concat([i \in 1..Len(s) |-> LowerCh(Ch(s, i))], 1, Len(s))

Upper(s) == Concat([i \in 1..Len(s) |-> UpperCh(Ch(s, i))], 1, Len(s))

\* the least element of a non-empty set of integers
Least(S) == CHOOSE j \in S : \A k \in S : j <= k

\* number of characters of s from position i on that belong to the class
Span(s, i, class) ==
    LET stops == {j \in i..Len(s) : Ch(s, j) \notin class}
    IN  IF stops # {} THEN Least(stops) - i
        ELSE IF i <= Len(s) THEN Len(s) - i + 1
        ELSE 0

LStrip(s) == From(s, 1 + Span(s, 1, SpaceSet))

RStrip(s) ==
    LET kept == {j \in 1..Len(s) : ~IsSpace(Ch(s, j))}
    IN  IF kept = {} THEN "" ELSE SubSeq(s, 1, CHOOSE j \in kept : \A k \in kept : k <= j)

Strip(s) == RStrip(LStrip(s))

StartsWith(s, p) == Len(s) >= Len(p) /\ SubSeq(s, 1, Len(p)) = p

\* Python "p in s"
Contains(s, p) ==
    \E i \in 1..(Len(s) - Len(p) + 1) : SubSeq(s, i, i + Len(p) - 1) = p

\* Python truthiness of an Optional[str]
Truthy(o) == IsSome(o) /\ Val(o) # ""

\* str(n) for a natural number n
RECURSIVE Str(_)
Str(n) == IF n < 10 THEN Ch(DigitChars, n + 1) ELSE Str(n \div 10) \o Ch(DigitChars, (n % 10) + 1)

\* len(s.split()): number of whitespace-separated tokens
WordCount(s) ==
    Cardinality({i \in 1..Len(s) : ~IsSpace(Ch(s, i)) /\ (i = 1 \/ IsSpace(Ch(s, i - 1)))})

\* re.sub(r'^[class]+\.\s+', '', s)
StripNumbering(s, class) ==
    LET n == Span(s, 1, class)
    IN  IF n >= 1 /\ Ch(s, n + 1) = "." /\ Span(s, n + 2, SpaceSet) >= 1
        THEN From(s, n + 2 + Span(s, n + 2, SpaceSet))
        ELSE s

----------------------------------------------------------------------------
(* Python float arithmetic                                                 *)

\* An integer of TLC has 32 bits, a mantissa 53: a natural number below 2^112 is the
\* tuple of its Limb.count digits in base Limb.base, the lowest digit first.
Limb == [bits |-> 14, base |-> 16384, count |-> 8]

Places == 1..Limb.count

\* the digits f[1], ..., f[8] as a tuple
Digits(f) == <<f[1], f[2], f[3], f[4], f[5], f[6], f[7], f[8]>>

Nought == <<0, 0, 0, 0, 0, 0, 0, 0>>

Digit(a, i) == IF i \in Places THEN a[i] ELSE 0

\* the number of an int n >= 0
Big(n) ==
    <<n % Limb.base, (n \div Limb.base) % Limb.base, n \div (Limb.base * Limb.base),
      0, 0, 0, 0, 0>>

\* the int of a number below 2^28
Small(a) == a[1] + Limb.base * a[2]

\* the digits of the sum of c[i] * Limb.base^(i-1), c[i] an int of either sign
Carried(c) ==
    LET carry[i \in Places] == IF i = 1 THEN 0 ELSE (c[i - 1] + carry[i - 1]) \div Limb.base
    IN  Digits([i \in Places |-> (c[i] + carry[i]) % Limb.base])

BigAdd(a, b) == Carried([i \in Places |-> a[i] + b[i]])

\* a - b for a >= b
BigSub(a, b) == Carried([i \in Places |-> a[i] - b[i]])

BigLess(a, b) == \E i \in Places : a[i] < b[i] /\ \A j \in (i + 1)..Limb.count : a[j] = b[j]

\* the sum of the products a[i] * b[j] with i + j = k + 1, for a and b below 2^56
Column(a, b, k) ==
    LET Term(i) == IF k + 1 - i \in 1..4 THEN a[i] * b[k + 1 - i] ELSE 0
    IN  Term(1) + Term(2) + Term(3) + Term(4)

\* a * b for a and b below 2^56
BigMul(a, b) == Carried(Digits([k \in Places |-> Column(a, b, k)]))

\* the whole digits and the bits left over in a shift by s bits
Whole(s) == s \div Limb.bits
Part(s) == s % Limb.bits

\* a * 2^s
ShiftLeft(a, s) ==
    Digits([k \in Places |->
        (Digit(a, k - Whole(s)) % 2^(Limb.bits - Part(s))) * 2^Part(s)
        + Digit(a, k - Whole(s) - 1) \div 2^(Limb.bits - Part(s))])

\* floor(a / 2^r)
ShiftRight(a, r) ==
    Digits([k \in Places |->
        Digit(a, k + Whole(r)) \div 2^Part(r)
        + (Digit(a, k + Whole(r) + 1) % 2^Part(r)) * 2^(Limb.bits - Part(r))])

\* quotient and remainder of a by an int d with 0 < d < 2^17
Divide(a, d) ==
    LET rem[i \in 1..(Limb.count + 1)] ==
            IF i > Limb.count THEN 0 ELSE (rem[i + 1] * Limb.base + a[i]) % d
    IN  [quot |-> Digits([i \in Places |-> (rem[i + 1] * Limb.base + a[i]) \div d]),
         rem |-> rem[1]]

\* bit number k of a, the lowest bit being bit 0
Bit(a, k) == (Digit(a, Whole(k) + 1) \div 2^Part(k)) % 2

\* TRUE iff a bit of a below bit k is 1
AnyBitBelow(a, k) ==
    \/ \E i \in 1..Whole(k) : Digit(a, i) # 0
    \/ Digit(a, Whole(k) + 1) % 2^Part(k) # 0

\* a / 2^r rounded to the nearest integer, a tie to the even one
ShiftRightRound(a, r) ==
    IF r = 0 THEN a
    ELSE IF Bit(a, r - 1) = 1 /\ (AnyBitBelow(a, r - 1) \/ Bit(a, r) = 1)
    THEN BigAdd(ShiftRight(a, r), Big(1))
    ELSE ShiftRight(a, r)

\* number of bits of a > 0
BitLength(a) ==
    LET top == CHOOSE i \in Places : a[i] # 0 /\ \A j \in (i + 1)..Limb.count : a[j] = 0
    IN  Limb.bits * (top - 1)
        + (CHOOSE k \in 1..Limb.bits : 2^(k - 1) <= a[top] /\ a[top] < 2^k)

\* A Python float is an IEEE 754 double, [sign, mantissa, exponent]: the number
\* sign * mantissa * 2^exponent with a mantissa of Double.bits bits; 0.0 has the
\* mantissa 0 and the exponent 0. Every operation gives the float nearest to the exact
\* result, a tie going to the even mantissa.
Double == [bits |-> 53]

Zero == [sign |-> 1, mantissa |-> Nought, exponent |-> 0]

\* the float of sign * rounded * 2^exponent, rounded having 53 or (after a carry out
\* of the rounding) 54 bits
Rounded(sign, rounded, exponent) ==
    IF BitLength(rounded) > Double.bits
    THEN [sign |-> sign, mantissa |-> ShiftRight(rounded, 1), exponent |-> exponent + 1]
    ELSE [sign |-> sign, mantissa |-> rounded, exponent |-> exponent]

\* the float nearest to sign * a * 2^exponent for a of "bits" bits, a tie to the
\* even mantissa
Nearest(sign, a, exponent, bits) ==
    IF bits <= Double.bits
    THEN [sign |-> sign, mantissa |-> ShiftLeft(a, Double.bits - bits),
          exponent |-> exponent - (Double.bits - bits)]
    ELSE Rounded(sign, ShiftRightRound(a, bits - Double.bits),
                 exponent + (bits - Double.bits))

ToFloat(sign, a, exponent) ==
    IF a = Nought THEN Zero ELSE Nearest(sign, a, exponent, BitLength(a))

\* twice the quotient d.quot, a last bit telling whether a remainder was cut off
Quotient(d) == BigAdd(ShiftLeft(d.quot, 1), Big(IF d.rem # 0 THEN 1 ELSE 0))

\* p / q for ints p >= 0 and 0 < q < 2^17, and the float of the literal that writes
\* p/q: p * 2^70 is divided by q
Float(p, q) ==
    IF p = 0 THEN Zero
    ELSE ToFloat(1, Quotient(Divide(ShiftLeft(Big(p), 5 * Limb.bits), q)), -(5 * Limb.bits + 1))

FloatMul(x, y) ==
    IF x.mantissa = Nought \/ y.mantissa = Nought THEN Zero
    ELSE ToFloat(x.sign * y.sign, BigMul(x.mantissa, y.mantissa), x.exponent + y.exponent)

\* the float of a - b or b - a for mantissas at one exponent
Difference(sign, a, b, exponent) ==
    IF BigLess(a, b) THEN ToFloat(-sign, BigSub(b, a), exponent)
    ELSE ToFloat(sign, BigSub(a, b), exponent)

\* x + y, the mantissas brought to the exponent e
AddAt(x, y, e) ==
    IF x.sign = y.sign
    THEN ToFloat(x.sign, BigAdd(ShiftLeft(x.mantissa, x.exponent - e),
                                ShiftLeft(y.mantissa, y.exponent - e)), e)
    ELSE Difference(x.sign, ShiftLeft(x.mantissa, x.exponent - e),
                    ShiftLeft(y.mantissa, y.exponent - e), e)

\* x + y; a number below a quarter of the last place of the other one adds nothing
FloatAdd(x, y) ==
    IF x.mantissa = Nought THEN y
    ELSE IF y.mantissa = Nought THEN x
    ELSE IF x.exponent - y.exponent > Double.bits + 1 THEN x
    ELSE IF y.exponent - x.exponent > Double.bits + 1 THEN y
    ELSE AddAt(x, y, IF x.exponent < y.exponent THEN x.exponent ELSE y.exponent)

FloatNeg(x) == IF x.mantissa = Nought THEN x ELSE [x EXCEPT !.sign = -x.sign]

FloatSub(x, y) == FloatAdd(x, FloatNeg(y))

\* x < y
FloatLess(x, y) == FloatSub(x, y).sign = -1

\* round(x, 2) for 0 <= x < 2^20: the number of hundredths nearest to x, a tie to the
\* even number, and the float that is nearest to it
Hundredths(x) ==
    IF x.mantissa = Nought THEN 0
    ELSE Small(ShiftRightRound(BigMul(x.mantissa, Big(100)), -x.exponent))

Round2(x) == Float(Hundredths(x), 100)

\* the literals 0.0, 1.0 and 100
One == Float(1, 1)
Hundred == Float(100, 1)

----------------------------------------------------------------------------
(* models.py                                                               *)

SectionType ==
    {"Title", "Authors", "Affiliation", "Abstract", "Keywords", "Introduction",
     "Related Work", "Literature Review", "Methodology", "Results", "Discussion",
     "Conclusion", "Future Work", "Acknowledgments", "References", "Appendix",
     "Unknown"}

FontRule(family, size, bold, italic, alignment) ==
    [font_family |-> family, font_size |-> size, bold |-> bold,
     italic |-> italic, alignment |-> alignment]

Section(id, type, content, heading, wc) ==
    [id |-> id, type |-> type, content |-> content, original_heading |-> heading,
     formatted_heading |-> None, word_count |-> wc, font_rule |-> None,
     heading_font_rule |-> None, subsections |-> <<>>]

----------------------------------------------------------------------------
(* formatter.py: rules                                                     *)

section_order ==
    <<"Title", "Authors", "Affiliation", "Abstract", "Keywords", "Introduction",
      "Related Work", "Literature Review", "Methodology", "Results", "Discussion",
      "Conclusion", "Future Work", "Acknowledgments", "References", "Appendix">>

font_rules ==
    [t \in SectionType |->
        CASE t = "Title"       -> FontRule("Times New Roman", 24, TRUE, FALSE, "center")
          [] t = "Authors"     -> FontRule("Times New Roman", 10, FALSE, FALSE, "center")
          [] t = "Affiliation" -> FontRule("Times New Roman", 10, FALSE, TRUE, "center")
          [] t = "Abstract"    -> FontRule("Times New Roman", 9, FALSE, FALSE, "justify")
          [] t = "Keywords"    -> FontRule("Times New Roman", 9, FALSE, TRUE, "justify")
          [] OTHER             -> FontRule("Times New Roman", 10, FALSE, FALSE, "justify")]

numbered_sections ==
    {"Introduction", "Related Work", "Literature Review", "Methodology", "Results",
     "Discussion", "Conclusion", "Future Work", "Acknowledgments", "References",
     "Appendix"}

heading_font_rule == FontRule("Times New Roman", 10, TRUE, FALSE, "left")

subheading_font_rule == FontRule("Times New Roman", 10, FALSE, TRUE, "left")

----------------------------------------------------------------------------
(* formatter.py: IEEEFormatter                                             *)

apply_font_rules(section) ==
    [section EXCEPT !.font_rule =
        IF section.type \in DOMAIN font_rules
        THEN Some(font_rules[section.type])
        ELSE Some(font_rules["Unknown"])]

OfType(sections, t) ==
    LET Test(s) == s.type = t IN SelectSeq(sections, Test)

\* the loop "for section_type in section_order" over the slots lo..hi
RECURSIVE ReorderRange(_, _, _)
ReorderRange(sections, lo, hi) ==
    IF lo = hi THEN OfType(sections, section_order[lo])
    ELSE ReorderRange(sections, lo, (lo + hi) \div 2)
         \o ReorderRange(sections, (lo + hi) \div 2 + 1, hi)

Reverse(seq) == [i \in 1..Len(seq) |-> seq[Len(seq) + 1 - i]]

\* each bucket of section_map filled at the front: same-type sections come out reversed
reorder_sections_unstable(sections) == ReorderRange(Reverse(sections), 1, Len(section_order))

reorder_sections(sections) == ReorderRange(sections, 1, Len(section_order))

roman_val == <<1000, 900, 500, 400, 100, 90, 50, 40, 10, 9, 5, 4, 1>>
roman_syms == <<"M", "CM", "D", "CD", "C", "XC", "L", "XL", "X", "IX", "V", "IV", "I">>

RECURSIVE ToRomanFrom(_, _)
ToRomanFrom(num, i) ==
    IF num <= 0 THEN ""
    ELSE IF num >= roman_val[i] THEN roman_syms[i] \o ToRomanFrom(num - roman_val[i], i)
    ELSE ToRomanFrom(num, i + 1)

to_roman(num) == ToRomanFrom(num, 1)

\* chr(65 + i), for the code points 65..95
AsciiFrom65 == "ABCDEFGHIJKLMNOPQRSTUVWXYZ[\\]^_"
Letter(i) == Ch(AsciiFrom65, i + 1)

\* str.title(): a cased character is upper-cased after an uncased one, lower-cased otherwise
Title(s) ==
    LET Cased(c) == IsUpper(c) \/ IsLower(c)
    IN  Concat([i \in 1..Len(s) |->
                   IF Cased(Ch(s, i - 1)) THEN LowerCh(Ch(s, i)) ELSE UpperCh(Ch(s, i))],
               1, Len(s))

\* apply_numbering without its special case for "final thoughts"
rename_final_thoughts_never(heading) == heading

\* the special case of apply_numbering: "final thoughts" is renamed to "conclusion"
rename_final_thoughts(heading) ==
    IF Contains(heading, "final thought") \/ Contains(heading, "final remark")
    THEN "conclusion"
    ELSE heading

\* the heading text of a numbered section, before the Roman numeral is put in front
clean_heading(original) ==
    rename_final_thoughts(
        Strip(StripNumbering(StripNumbering(Lower(original), RomanSet), DigitSet)))

number_subsections(subsections) ==
    [i \in 1..Len(subsections) |->
        [subsections[i] EXCEPT
            !.formatted_heading =
                IF Truthy(subsections[i].original_heading)
                THEN Some(Letter(i - 1) \o ". " \o Title(Val(subsections[i].original_heading)))
                ELSE Some(Letter(i - 1) \o ". Subsection"),
            !.heading_font_rule = Some(subheading_font_rule)]]

\* a formatter that carries the original heading over as the formatted heading
number_section_as_uploaded(section, roman_counter) ==
    [section EXCEPT !.formatted_heading = section.original_heading]

\* body of the loop of apply_numbering for one section
number_section(section, roman_counter) ==
    IF section.type \in numbered_sections
    THEN [section EXCEPT
            !.formatted_heading =
                IF Truthy(section.original_heading)
                THEN Some(to_roman(roman_counter) \o ". "
                          \o Upper(clean_heading(Val(section.original_heading))))
                ELSE Some(to_roman(roman_counter) \o ". " \o Upper(section.type)),
            !.heading_font_rule = Some(heading_font_rule),
            !.subsections = number_subsections(section.subsections)]
    ELSE IF section.type = "Abstract"
    THEN [section EXCEPT !.formatted_heading = Some("ABSTRACT"),
                         !.heading_font_rule = Some(heading_font_rule)]
    ELSE IF section.type = "Keywords"
    THEN [section EXCEPT !.formatted_heading = Some("INDEX TERMS"),
                         !.heading_font_rule = Some(heading_font_rule)]
    ELSE IF section.type \in {"Authors", "Affiliation", "Title"}
    THEN [section EXCEPT !.formatted_heading = None]
    ELSE IF Truthy(section.original_heading)
    THEN [section EXCEPT !.formatted_heading = Some(Upper(Val(section.original_heading))),
                         !.heading_font_rule = Some(heading_font_rule)]
    ELSE [section EXCEPT !.formatted_heading = Some(Upper(section.type)),
                         !.heading_font_rule = Some(heading_font_rule)]

\* a counter that every section advances, numbered or not
roman_counter_every(sections, i) == i

\* the value of roman_counter when the loop of apply_numbering reaches sections[i]
roman_counter(sections, i) ==
    1 + Cardinality({j \in 1..(i - 1) : sections[j].type \in numbered_sections})

apply_numbering(sections) ==
    [i \in 1..Len(sections) |-> number_section(sections[i], roman_counter(sections, i))]

----------------------------------------------------------------------------
(* citation_converter.py: CitationConverter                                *)

\* the characters of line.startswith('\u2022') or line.startswith('-') or
\* line.startswith('*'), and of the class [\u2022\-*]
BulletSet == {Bullet, "-", "*"}

\* s.split(sep) for a one-character separator
Split(s, sep) ==
    LET at == {i \in 1..Len(s) : Ch(s, i) = sep}
        \* position of the k-th separator; 0 and Len(s) + 1 stand for the two ends
        Cut(k) == IF k = 0 THEN 0
                  ELSE IF k > Cardinality(at) THEN Len(s) + 1
                  ELSE CHOOSE i \in at : Cardinality({j \in at : j < i}) = k - 1
    IN  [k \in 1..(Cardinality(at) + 1) |-> SubSeq(s, Cut(k - 1) + 1, Cut(k) - 1)]

\* sep.join(parts[lo..hi])
RECURSIVE JoinRange(_, _, _, _)
JoinRange(parts, sep, lo, hi) ==
    IF lo > hi THEN ""
    ELSE IF lo = hi THEN parts[lo]
    ELSE JoinRange(parts, sep, lo, (lo + hi) \div 2) \o sep
         \o JoinRange(parts, sep, (lo + hi) \div 2 + 1, hi)

\* sep.join(parts)
Join(parts, sep) == JoinRange(parts, sep, 1, Len(parts))

\* re.match(r'^\[\d+\]', line): end of the match, 0 if none
BracketNumberEnd(line) ==
    LET d == Span(line, 2, DigitSet)
    IN  IF Ch(line, 1) = "[" /\ d >= 1 /\ Ch(line, 2 + d) = "]" THEN 2 + d ELSE 0

\* re.match(r'^\d+\.', line): end of the match, 0 if none
DotNumberEnd(line) ==
    LET d == Span(line, 1, DigitSet)
    IN  IF d >= 1 /\ Ch(line, d + 1) = "." THEN d + 1 ELSE 0

\* re.match(r'^[A-Z][a-z]+,\s+[A-Z]', line)
AuthorStart(line) ==
    LET l == Span(line, 2, LowerSet)
    IN  /\ IsUpper(Ch(line, 1))
        /\ l >= 1
        /\ Ch(line, 2 + l) = ","
        /\ Span(line, 3 + l, SpaceSet) >= 1
        /\ IsUpper(Ch(line, 3 + l + Span(line, 3 + l, SpaceSet)))

is_citation_start(line) ==
    \/ BracketNumberEnd(line) > 0
    \/ DotNumberEnd(line) > 0
    \/ Ch(line, 1) \in BulletSet
    \/ AuthorStart(line)

\* re.sub(r'^<prefix>\s*', '', line) for a prefix that matches the first e characters
\* of line (e = 0: no match)
DropPrefix(line, e) == IF e > 0 THEN LStrip(From(line, e + 1)) ELSE line

remove_citation_prefix(line) ==
    LET unbracketed == DropPrefix(line, BracketNumberEnd(line))
        unnumbered == DropPrefix(unbracketed, DotNumberEnd(unbracketed))
    IN  Strip(DropPrefix(unnumbered, IF Ch(unnumbered, 1) \in BulletSet THEN 1 ELSE 0))

\* The loop "for line in lines" of _extract_citations is a state [i, citations,
\* current_citation]: the index of the next line and the two lists.

\* citations after "if current_citation: citations.append(' '.join(current_citation))"
Flush(st) ==
    IF st.current_citation # <<>>
    THEN Append(st.citations, Join(st.current_citation, " "))
    ELSE st.citations

\* one pass of the loop, line being lines[i].strip()
ExtractLine(st, line) ==
    IF line = ""
    THEN [i |-> st.i + 1, citations |-> Flush(st), current_citation |-> <<>>]
    ELSE IF is_citation_start(line)
    THEN [i |-> st.i + 1, citations |-> Flush(st),
          current_citation |-> <<remove_citation_prefix(line)>>]
    ELSE [i |-> st.i + 1, citations |-> st.citations,
          current_citation |-> Append(st.current_citation, line)]

\* the loop from state st on, and the flush after it
RECURSIVE ExtractFrom(_, _)
ExtractFrom(lines, st) ==
    IF st.i > Len(lines) THEN Flush(st)
    ELSE ExtractFrom(lines, ExtractLine(st, Strip(lines[st.i])))

\* re.split(r'\.\s+(?=[A-Z])', s)
RECURSIVE SentenceSplit(_)
SentenceSplit(s) ==
    LET hits == {i \in 1..Len(s) :
                    /\ Ch(s, i) = "."
                    /\ Span(s, i + 1, SpaceSet) >= 1
                    /\ IsUpper(Ch(s, i + 1 + Span(s, i + 1, SpaceSet)))}
    IN  IF hits = {} THEN <<s>>
        ELSE <<SubSeq(s, 1, Least(hits) - 1)>>
             \o SentenceSplit(From(s, Least(hits) + 1 + Span(s, Least(hits) + 1, SpaceSet)))

extract_citations(references_content) ==
    LET citations == ExtractFrom(Split(references_content, "\n"),
                                 [i |-> 1, citations |-> <<>>, current_citation |-> <<>>])
        NonBlank(c) == Strip(c) # ""
        potential_citations == SelectSeq(SentenceSplit(references_content), NonBlank)
    IN  IF citations = <<>> /\ Strip(references_content) # ""
        THEN [k \in 1..Len(potential_citations) |-> Strip(potential_citations[k]) \o "."]
        ELSE citations

\* citation_map is a function from keys to numbers; {} of Python is the empty function
EmptyMap == [k \in {} |-> 0]

MapPut(map, key, n) ==
    [k \in (DOMAIN map) \cup {key} |-> IF k = key THEN n ELSE map[k]]

\* citation[:100]
Prefix100(s) == SubSeq(s, 1, IF Len(s) < 100 THEN Len(s) ELSE 100)

\* the loop "for citation in citations" of _build_citation_map from the state
\* st = [i, citation_map, next_citation_number] on
RECURSIVE BuildFrom(_, _)
BuildFrom(citations, st) ==
    IF st.i > Len(citations)
    THEN [citation_map |-> st.citation_map, next_citation_number |-> st.next_citation_number]
    ELSE BuildFrom(citations,
            [i |-> st.i + 1,
             citation_map |-> MapPut(st.citation_map, Strip(Prefix100(citations[st.i])),
                                     st.next_citation_number),
             next_citation_number |-> st.next_citation_number + 1])

build_citation_map(citations) ==
    BuildFrom(citations, [i |-> 1, citation_map |-> EmptyMap, next_citation_number |-> 1])

\* the entries numbered from the last one to the first
format_references_section_reversed(citations) ==
    Join([i \in 1..Len(citations) |->
             "[" \o Str(i) \o "] " \o citations[Len(citations) + 1 - i]], "\n\n")

format_references_section(citations) ==
    Join([i \in 1..Len(citations) |-> "[" \o Str(i) \o "] " \o citations[i]], "\n\n")

\* The three in-text patterns are matched piece by piece: each piece is tried at a
\* position k of s and gives the position after it, or 0 if it does not match; a
\* piece tried at 0 (an earlier piece failed) gives 0.

\* the literal text w
Lit(s, k, w) ==
    IF k > 0 /\ k + Len(w) - 1 <= Len(s) /\ SubSeq(s, k, k + Len(w) - 1) = w
    THEN k + Len(w) ELSE 0

\* \s+
SpacesEnd(s, k) == IF k > 0 /\ Span(s, k, SpaceSet) >= 1 THEN k + Span(s, k, SpaceSet) ELSE 0

\* \d{4}
FourDigits(s, k) == IF k > 0 /\ \A d \in 0..3 : IsDigit(Ch(s, k + d)) THEN k + 4 ELSE 0

\* [A-Z][a-z]+
NameEnd(s, k) ==
    IF k > 0 /\ IsUpper(Ch(s, k)) /\ Span(s, k + 1, LowerSet) >= 1
    THEN k + 1 + Span(s, k + 1, LowerSet) ELSE 0

\* the first of two match ends that is a match: the regex engine tries an optional
\* piece first and backtracks to the alternative without it
Prefer(first, second) == IF first > 0 THEN first ELSE second

\* \s+et\s+al\. , the optional group after the name
EtAlEnd(s, k) == Lit(s, SpacesEnd(s, Lit(s, SpacesEnd(s, k), "et")), "al.")

\* the year of a pattern: ,?\s+\d{4}\) for pattern 1, ,?\s+\d{4}\] for pattern 2 and
\* \s+\(\d{4}\) for pattern 3
YearEnd(s, k, pattern) ==
    CASE pattern = 1 -> Lit(s, FourDigits(s, SpacesEnd(s, Prefer(Lit(s, k, ","), k))), ")")
      [] pattern = 2 -> Lit(s, FourDigits(s, SpacesEnd(s, Prefer(Lit(s, k, ","), k))), "]")
      [] OTHER       -> Lit(s, FourDigits(s, Lit(s, SpacesEnd(s, k), "(")), ")")

\* a match that ends before position e and whose group 1 ends before g; <<0, 0>> if e = 0
Match(e, g) == IF e > 0 THEN <<e, g>> ELSE <<0, 0>>

\* the rest of a pattern after the name, which ends before n, and the optional group,
\* which ends before g: with the group if the year follows it, else without
MatchAfterName(s, n, g, pattern) ==
    IF YearEnd(s, g, pattern) > 0 THEN Match(YearEnd(s, g, pattern), g)
    ELSE Match(YearEnd(s, n, pattern), n)

\* the rest of a pattern after the name, which ends before position n
MatchName(s, n, pattern) == MatchAfterName(s, n, EtAlEnd(s, n), pattern)

\* a match of pattern 1 "(Author, YYYY)", 2 "[Author, YYYY]" or 3 "Author (YYYY)" tried
\* at position j: <<position after the match, position after group 1>>, <<0, 0>> if
\* there is none
MatchAt(s, j, pattern) ==
    CASE pattern = 1 -> MatchName(s, NameEnd(s, Lit(s, j, "(")), pattern)
      [] pattern = 2 -> MatchName(s, NameEnd(s, Lit(s, j, "[")), pattern)
      [] OTHER       -> MatchName(s, NameEnd(s, j), pattern)

\* a converter that numbers a new key without advancing its counter
WithKeyNotCounted(conv, key) ==
    [citation_map |-> MapPut(conv.citation_map, key, conv.next_citation_number),
     next_citation_number |-> conv.next_citation_number]

\* the converter after "if key not in self.citation_map: ..."
WithKey(conv, key) ==
    IF key \in DOMAIN conv.citation_map THEN conv
    ELSE [citation_map |-> MapPut(conv.citation_map, key, conv.next_citation_number),
          next_citation_number |-> conv.next_citation_number + 1]

\* _get_citation_number: the converter after the call and the text returned
get_citation_number(conv, citation_text) ==
    [conv |-> WithKey(conv, Strip(citation_text)),
     text |-> "[" \o Str(WithKey(conv, Strip(citation_text)).citation_map[Strip(citation_text)])
                  \o "]"]

\* position of the leftmost match at or after i, 0 if none
NextMatch(s, i, pattern) ==
    LET hits == {j \in i..Len(s) : MatchAt(s, j, pattern)[1] > 0}
    IN  IF hits = {} THEN 0 ELSE Least(hits)

\* re.sub of one pattern over s is a loop with the state st = [i, conv, out]: the
\* position from which the next match is searched, the converter and the text
\* produced so far.

\* the state after the match s[j..m[1]-1] is replaced by the text that
\* _get_citation_number returns (for pattern 3 the author, group 1, is kept in front)
SubReplace(s, pattern, st, j, m) ==
    LET r == get_citation_number(st.conv, SubSeq(s, j, m[1] - 1))
    IN  [i |-> m[1],
         conv |-> r.conv,
         out |-> st.out \o SubSeq(s, st.i, j - 1)
                        \o (IF pattern = 3 THEN SubSeq(s, j, m[2] - 1) \o " " ELSE "")
                        \o r.text]

RECURSIVE SubFrom(_, _, _)

\* the loop from the state st on, j being the position of the next match (0: none)
SubAt(s, pattern, st, j) ==
    IF j = 0 THEN [conv |-> st.conv, content |-> st.out \o From(s, st.i)]
    ELSE SubFrom(s, pattern, SubReplace(s, pattern, st, j, MatchAt(s, j, pattern)))

SubFrom(s, pattern, st) == SubAt(s, pattern, st, NextMatch(s, st.i, pattern))

\* re.sub of one pattern over the content of the record r = [conv, content]
SubPattern(r, pattern) == SubFrom(r.content, pattern, [i |-> 1, conv |-> r.conv, out |-> ""])

\* the section with the content of r = [conv, content], and the converter of r
WithContent(section, r) ==
    [conv |-> r.conv, section |-> [section EXCEPT !.content = r.content]]

\* _convert_intext_citations: the converter after the call and the converted section
convert_intext_citations(conv, section) ==
    WithContent(section,
        SubPattern(SubPattern(SubPattern([conv |-> conv, content |-> section.content], 1), 2), 3))

\* index of the first section of type References, 0 if there is none
ReferencesIndex(sections) ==
    IF \E i \in 1..Len(sections) : sections[i].type = "References"
    THEN CHOOSE i \in 1..Len(sections) :
            /\ sections[i].type = "References"
            /\ \A j \in 1..(i - 1) : sections[j].type # "References"
    ELSE 0

\* The loop "for i, section in enumerate(sections)" of convert_references is a state
\* st = [i, conv, converted_sections].

\* one pass for a section other than References, r being the result of
\* _convert_intext_citations
ConvertOther(st, r) ==
    [i |-> st.i + 1, conv |-> r.conv,
     converted_sections |-> Append(st.converted_sections, r.section)]

\* one pass of the loop
ConvertSection(sections, references_index, citations, st) ==
    IF st.i = references_index
    THEN [i |-> st.i + 1, conv |-> st.conv,
          converted_sections |->
              Append(st.converted_sections,
                     [sections[st.i] EXCEPT
                         !.content = format_references_section(citations)])]
    ELSE ConvertOther(st, convert_intext_citations(st.conv, sections[st.i]))

RECURSIVE ConvertFrom(_, _, _, _)
ConvertFrom(sections, references_index, citations, st) ==
    IF st.i > Len(sections) THEN [conv |-> st.conv, sections |-> st.converted_sections]
    ELSE ConvertFrom(sections, references_index, citations,
                     ConvertSection(sections, references_index, citations, st))

\* convert_references once the References section is found and segmented
ConvertWith(sections, references_index, citations) ==
    ConvertFrom(sections, references_index, citations,
                [i |-> 1, conv |-> build_citation_map(citations),
                 converted_sections |-> <<>>])

\* convert_references on a converter conv: the converter after the call and the
\* sections returned
\* the conversion carried out even when there is no References section
convert_references_always(conv, sections) ==
    ConvertWith(sections, ReferencesIndex(sections),
                IF ReferencesIndex(sections) = 0 THEN <<>>
                ELSE extract_citations(sections[ReferencesIndex(sections)].content))

\* the numbering continued from the map and the counter that the converter holds
convert_references_carrying(conv, sections) ==
    IF ReferencesIndex(sections) = 0
    THEN [conv |-> conv, sections |-> sections]
    ELSE LET citations == extract_citations(sections[ReferencesIndex(sections)].content)
         IN  ConvertFrom(sections, ReferencesIndex(sections), citations,
                         [i |-> 1,
                          conv |-> BuildFrom(citations,
                                       [i |-> 1, citation_map |-> conv.citation_map,
                                        next_citation_number |-> conv.next_citation_number]),
                          converted_sections |-> <<>>])

convert_references(conv, sections) ==
    IF ReferencesIndex(sections) = 0
    THEN [conv |-> conv, sections |-> sections]
    ELSE ConvertWith(sections, ReferencesIndex(sections),
                     extract_citations(sections[ReferencesIndex(sections)].content))

NewConverter == [citation_map |-> EmptyMap, next_citation_number |-> 1]

reset(conv) == NewConverter

get_citation_count(conv) == Cardinality(DOMAIN conv.citation_map)

\* the end of format, converted being the result of convert_references and
\* document_metadata the metadata of the document handed to format
FormattedDocument(converted, document_metadata) ==
    [metadata |-> Merge(document_metadata,
                        [formatted |-> TRUE, ieee_compliant |-> TRUE,
                         citations_converted |-> TRUE,
                         citation_count |-> get_citation_count(converted.conv)]),
     sections |-> apply_numbering(reorder_sections(converted.sections)),
     compliance_score |-> Zero]

\* IEEEFormatter.format with a fresh CitationConverter, on the document with these
\* sections and this metadata: the formatted document
format(sections, document_metadata) ==
    FormattedDocument(
        convert_references(NewConverter,
                           [i \in 1..Len(sections) |-> apply_font_rules(sections[i])]),
        document_metadata)

----------------------------------------------------------------------------
(* issue_detector.py: IssueDetector                                        *)

\* REQUIRED_SECTIONS is a Python set of str-enum members
REQUIRED_SECTIONS ==
    {"Abstract", "Keywords", "Introduction", "Methodology", "Results", "Conclusion",
     "References"}

RequiredSet == REQUIRED_SECTIONS

\* the sequences that list each member of S once
RECURSIVE Arrangements(_)
Arrangements(S) ==
    IF S = {} THEN {<<>>}
    ELSE UNION {{<<x>> \o rest : rest \in Arrangements(S \ {x})} : x \in S}

\* "for required_section in self.REQUIRED_SECTIONS" visits the members in the order
\* of the hash table, which follows from the hash seed of the process; a process
\* started without PYTHONHASHSEED draws its seed at random, and no order of the
\* seven members is excluded
IterationOrders == Arrangements(REQUIRED_SECTIONS)

ABSTRACT_MIN_WORDS == 150
ABSTRACT_MAX_WORDS == 250

sections_needing_headings ==
    {"Abstract", "Keywords", "Introduction", "Related Work", "Literature Review",
     "Methodology", "Results", "Discussion", "Conclusion", "Future Work",
     "Acknowledgments", "References", "Appendix"}

Issue(type, section, severity) == [type |-> type, section |-> section, severity |-> severity]

PresentTypes(sections) == {sections[i].type : i \in 1..Len(sections)}

\* the check of the last required type left out
detect_missing_sections_short(order, sections) ==
    LET Missing(t) == t \notin PresentTypes(sections) /\ t # "References"
        missing == SelectSeq(order, Missing)
    IN  [i \in 1..Len(missing) |-> Issue("missing_required_section", missing[i], "high")]

\* order: the iteration order of REQUIRED_SECTIONS in the process
detect_missing_sections(order, sections) ==
    LET Missing(t) == t \notin PresentTypes(sections)
        missing == SelectSeq(order, Missing)
    IN  [i \in 1..Len(missing) |-> Issue("missing_required_section", missing[i], "high")]

\* expected_positions.get(type, -1): 0-based index in IEEE_SECTION_ORDER
expected_position(t) ==
    IF \E k \in 1..Len(section_order) : section_order[k] = t
    THEN (CHOOSE k \in 1..Len(section_order) : section_order[k] = t) - 1
    ELSE -1

Max(a, b) == IF a >= b THEN a ELSE b

RECURSIVE OrderIssuesFrom(_, _, _)
OrderIssuesFrom(sections, i, last_position) ==
    IF i > Len(sections) THEN <<>>
    ELSE LET t == sections[i].type
             expected_pos == expected_position(t)
         IN  IF t = "Unknown" THEN OrderIssuesFrom(sections, i + 1, last_position)
             ELSE (IF expected_pos # -1 /\ expected_pos < last_position
                   THEN <<Issue("section_out_of_order", t, "medium")>> ELSE <<>>)
                  \o OrderIssuesFrom(sections, i + 1,
                        IF expected_pos # -1 THEN Max(last_position, expected_pos)
                        ELSE last_position)

\* each section compared with the section before it, not with the running maximum
detect_section_order_issues_previous(sections) ==
    LET Falls(i) == /\ i > 1
                    /\ sections[i].type # "Unknown" /\ sections[i - 1].type # "Unknown"
                    /\ expected_position(sections[i].type)
                           < expected_position(sections[i - 1].type)
        Pick(i) == Falls(i)
        falling == SelectSeq([i \in 1..Len(sections) |-> i], Pick)
    IN  [k \in 1..Len(falling) |->
            Issue("section_out_of_order", sections[falling[k]].type, "medium")]

detect_section_order_issues(sections) == OrderIssuesFrom(sections, 1, -1)

detect_abstract_word_count_issues(sections) ==
    LET Bad(s) == /\ s.type = "Abstract"
                  /\ (s.word_count < ABSTRACT_MIN_WORDS \/ s.word_count > ABSTRACT_MAX_WORDS)
        bad == SelectSeq(sections, Bad)
    IN  [i \in 1..Len(bad) |-> Issue("abstract_word_count_violation", "Abstract", "medium")]

detect_missing_headings(sections) ==
    LET NoHeading(s) ==
            /\ s.type \in sections_needing_headings
            /\ (~Truthy(s.original_heading) \/ Strip(Val(s.original_heading)) = "")
        bare == SelectSeq(sections, NoHeading)
    IN  [i \in 1..Len(bare) |-> Issue("missing_section_heading", bare[i].type, "low")]

detect_issues(order, sections) ==
    detect_missing_sections(order, sections)
    \o detect_section_order_issues(sections)
    \o detect_abstract_word_count_issues(sections)
    \o detect_missing_headings(sections)

\* the members of REQUIRED_SECTIONS that the document has, in the order of
\* section_order
PresentRequired(sections) ==
    LET Present(t) == t \in REQUIRED_SECTIONS /\ t \in PresentTypes(sections)
    IN  SelectSeq(section_order, Present)

\* Iteration orders that between them give every list of issues that detect_issues
\* can return for the document: a member that the document has yields no issue
\* wherever it stands in the order, so one order stands for all the orders that
\* list the missing members alike
IterationOrdersFor(sections) ==
    {missing \o PresentRequired(sections) :
        missing \in Arrangements(REQUIRED_SECTIONS \ PresentTypes(sections))}

----------------------------------------------------------------------------
(* compliance_scorer.py: ComplianceScorer                                  *)

WEIGHTS ==
    [required_sections |-> Float(30, 100), section_order |-> Float(25, 100),
     abstract_compliance |-> Float(20, 100), heading_hierarchy |-> Float(15, 100),
     formatting_consistency |-> Float(10, 100)]

\* present_required / total_required
score_required_sections(sections) ==
    Float(Cardinality(RequiredSet \cap PresentTypes(sections)), Cardinality(RequiredSet))

\* the partial credit given whether or not an order issue was found
score_section_order_partial(sections, iss) == Float(7, 10)

score_section_order(sections, iss) ==
    IF \E i \in 1..Len(iss) : iss[i].type = "section_out_of_order"
    THEN Float(7, 10) ELSE One

\* the range taken without its end points
score_abstract_compliance_open(sections) ==
    LET abstract_sections == OfType(sections, "Abstract")
    IN  IF abstract_sections = <<>> THEN Zero
        ELSE IF /\ ABSTRACT_MIN_WORDS < abstract_sections[1].word_count
                /\ abstract_sections[1].word_count < ABSTRACT_MAX_WORDS
        THEN One
        ELSE Float(6, 10)

score_abstract_compliance(sections) ==
    LET abstract_sections == OfType(sections, "Abstract")
    IN  IF abstract_sections = <<>> THEN Zero
        ELSE IF /\ ABSTRACT_MIN_WORDS <= abstract_sections[1].word_count
                /\ abstract_sections[1].word_count <= ABSTRACT_MAX_WORDS
        THEN One
        ELSE Float(6, 10)

\* properly_formatted / len(sections_with_heading_requirement)
score_heading_hierarchy(sections) ==
    LET Needs(s) == s.type \in sections_needing_headings
        needing == SelectSeq(sections, Needs)
        Proper(s) == Truthy(s.formatted_heading) /\ Strip(Val(s.formatted_heading)) # ""
    IN  IF needing = <<>> THEN One
        ELSE Float(Len(SelectSeq(needing, Proper)), Len(needing))

\* max(0.0, score) for the score left after the penalty
Clamped(score) == IF FloatLess(Zero, score) THEN score ELSE Zero

\* len(high_severity_issues) * 0.2
Penalty(iss) ==
    LET High(i) == i.severity = "high"
    IN  FloatMul(Float(Len(SelectSeq(iss, High)), 1), Float(2, 10))

\* the penalty taken off without max(0.0, ...)
score_formatting_consistency_unclamped(sections, iss) == FloatSub(One, Penalty(iss))

score_formatting_consistency(sections, iss) == Clamped(FloatSub(One, Penalty(iss)))

\* sum(breakdown[c] * WEIGHTS[c] for c in WEIGHTS): the products are added one after
\* the other, in the order of the keys of WEIGHTS, to the int 0
total_score(breakdown) ==
    FloatAdd(FloatAdd(FloatAdd(FloatAdd(
        FloatMul(breakdown.required_sections, WEIGHTS.required_sections),
        FloatMul(breakdown.section_order, WEIGHTS.section_order)),
        FloatMul(breakdown.abstract_compliance, WEIGHTS.abstract_compliance)),
        FloatMul(breakdown.heading_hierarchy, WEIGHTS.heading_hierarchy)),
        FloatMul(breakdown.formatting_consistency, WEIGHTS.formatting_consistency))

\* score = round(total_score * 100, 2)
ComplianceScore(breakdown) ==
    [score |-> Round2(FloatMul(total_score(breakdown), Hundred)),
     breakdown |-> breakdown,
     weights |-> WEIGHTS]

calculate(sections, iss) ==
    ComplianceScore(
        [required_sections |-> score_required_sections(sections),
         section_order |-> score_section_order(sections, iss),
         abstract_compliance |-> score_abstract_compliance(sections),
         heading_hierarchy |-> score_heading_hierarchy(sections),
         formatting_consistency |-> score_formatting_consistency(sections, iss)])

----------------------------------------------------------------------------
(* change_tracker.py: ChangeTracker                                        *)

Fix(section_id, type, original, formatted_value) ==
    [section_id |-> section_id, type |-> type, original |-> original,
     formatted |-> formatted_value]

Ids(sections) == {sections[i].id : i \in 1..Len(sections)}

\* {s.id: idx for idx, s in enumerate(sections)}[id], 1-based: the last index holding id
PositionOf(sections, id) ==
    CHOOSE i \in 1..Len(sections) :
        /\ sections[i].id = id
        /\ \A j \in (i + 1)..Len(sections) : sections[j].id # id

\* {s.id: s for s in sections}[id]
SectionById(sections, id) == sections[PositionOf(sections, id)]

\* the keys of {s.id: ... for s in sections} in iteration (first insertion) order
RECURSIVE KeysFrom(_, _, _)
KeysFrom(sections, i, seen) ==
    IF i > Len(sections) THEN <<>>
    ELSE IF sections[i].id \in seen THEN KeysFrom(sections, i + 1, seen)
    ELSE <<sections[i].id>> \o KeysFrom(sections, i + 1, seen \cup {sections[i].id})

\* a tracker that correlates the sections by position: a fix where the two documents
\* hold sections of different ids at one index
track_section_reordering_by_position(before, after) ==
    LET differing == SelectSeq([k \in 1..Len(after) |-> k],
                               LAMBDA k : k <= Len(before) /\ before[k].id # after[k].id)
    IN  [n \in 1..Len(differing) |->
            Fix(after[differing[n]].id, "section_reordering",
                Some("Position " \o Str(differing[n])), Some("Position " \o Str(differing[n])))]

track_section_reordering(before, after) ==
    LET keys == KeysFrom(after, 1, {})
        Moved(id) == id \in Ids(before) /\ PositionOf(before, id) # PositionOf(after, id)
        moved == SelectSeq(keys, Moved)
    IN  [k \in 1..Len(moved) |->
            Fix(moved[k], "section_reordering",
                Some("Position " \o Str(PositionOf(before, moved[k]))),
                Some("Position " \o Str(PositionOf(after, moved[k]))))]

track_heading_changes(before_section, after_section) ==
    IF ~Truthy(before_section.original_heading) /\ Truthy(after_section.formatted_heading)
    THEN <<Fix(after_section.id, "heading_added", None, after_section.formatted_heading)>>
    ELSE IF /\ Truthy(before_section.original_heading)
            /\ Truthy(after_section.formatted_heading)
            /\ before_section.original_heading # after_section.formatted_heading
    THEN <<Fix(after_section.id, "heading_formatting", before_section.original_heading,
               after_section.formatted_heading)>>
    ELSE <<>>

\* str.capitalize()
Capitalize(s) == UpperCh(Ch(s, 1)) \o Lower(From(s, 2))

FontDescription(r) ==
    r.font_family \o ", " \o Str(r.font_size) \o "pt, "
    \o (IF r.bold THEN "Bold" ELSE "Normal") \o ", "
    \o (IF r.italic THEN "Italic" ELSE "Regular") \o ", "
    \o Capitalize(r.alignment) \o " aligned"

track_font_changes(before_section, after_section) ==
    (IF ~IsSome(before_section.font_rule) /\ IsSome(after_section.font_rule)
     THEN <<Fix(after_section.id, "font_formatting", Some("No font formatting"),
                Some(FontDescription(Val(after_section.font_rule))))>>
     ELSE <<>>)
    \o
    (IF ~IsSome(before_section.heading_font_rule) /\ IsSome(after_section.heading_font_rule)
     THEN <<Fix(after_section.id, "heading_font_formatting",
                Some("No heading font formatting"),
                Some(Val(after_section.heading_font_rule).font_family \o ", "
                     \o Str(Val(after_section.heading_font_rule).font_size) \o "pt, Bold"))>>
     ELSE <<>>)

track_content_changes(before_section, after_section) ==
    LET before_words == WordCount(before_section.content)
        after_words == WordCount(after_section.content)
    IN  IF /\ before_section.content # after_section.content
           /\ \/ after_words - before_words # 0
              \/ Strip(before_section.content) # Strip(after_section.content)
        THEN <<Fix(after_section.id, "grammar_correction",
                   Some(Str(before_words) \o " words"), Some(Str(after_words) \o " words"))>>
        ELSE <<>>

track_section_type_changes(before_section, after_section) ==
    IF before_section.type # after_section.type
    THEN <<Fix(after_section.id, "section_type_correction", Some(before_section.type),
               Some(after_section.type))>>
    ELSE <<>>

\* a counterpart taken by position when the id is unknown, instead of none
before_section_or_first(before, section_id) ==
    IF section_id \in Ids(before) THEN Some(SectionById(before, section_id))
    ELSE IF before # <<>> THEN Some(before[1])
    ELSE None

\* before_sections_by_id.get(section_id)
before_section_by_id(before, section_id) ==
    IF section_id \in Ids(before) THEN Some(SectionById(before, section_id)) ELSE None

\* the body of "if before_section:", before_section being an Optional
track_section(before_section, after_section) ==
    IF IsSome(before_section)
    THEN track_heading_changes(Val(before_section), after_section)
         \o track_font_changes(Val(before_section), after_section)
         \o track_content_changes(Val(before_section), after_section)
         \o track_section_type_changes(Val(before_section), after_section)
    ELSE <<>>

\* the loop "for after_section in document_after.sections" from index i on
RECURSIVE TrackFrom(_, _, _)
TrackFrom(before, after, i) ==
    IF i > Len(after) THEN <<>>
    ELSE track_section(before_section_by_id(before, after[i].id), after[i])
         \o TrackFrom(before, after, i + 1)

track_changes(before, after) ==
    track_section_reordering(before, after) \o TrackFrom(before, after, 1)

----------------------------------------------------------------------------
(* corrector.py: GrammarCorrector                                          *)
(* The external call ends in an exception (an API error or a timeout), or  *)
(* in a response whose text is a string; "" stands for an empty response.  *)

Exception == <<"exception">>
Response(text) == <<"response", text>>

\* the outcome recorded where correct_text makes no call
NoCall == <<"none">>

\* TRUE iff correct_text calls the service for this text
CallsService(is_enabled, text) == is_enabled /\ text # "" /\ Strip(text) # ""

\* a failure that loses the text instead of falling back to it
correct_text_losing(is_enabled, text, outcome) ==
    IF ~is_enabled THEN text
    ELSE IF text = "" \/ Strip(text) = "" THEN text
    ELSE IF outcome = Exception THEN ""
    ELSE IF outcome[2] # "" THEN Strip(outcome[2])
    ELSE text

\* correct_text with the outcome of its call to the external service
correct_text(is_enabled, text, outcome) ==
    IF ~is_enabled THEN text
    ELSE IF text = "" \/ Strip(text) = "" THEN text
    ELSE IF outcome = Exception THEN text
    ELSE IF outcome[2] # "" THEN Strip(outcome[2])
    ELSE text

\* body of the loop of correct for one section, with the outcomes of the calls made
\* for its content and for its heading
correct_section(section, content_outcome, heading_outcome) ==
    [section EXCEPT
        !.content = IF section.content # ""
                    THEN correct_text(TRUE, section.content, content_outcome)
                    ELSE section.content,
        !.original_heading =
            IF Truthy(section.original_heading)
            THEN Some(correct_text(TRUE, Val(section.original_heading), heading_outcome))
            ELSE section.original_heading]

\* correct: call_outcomes[i] is the pair of outcomes of the calls for sections[i]
correct(is_enabled, sections, call_outcomes) ==
    IF ~is_enabled THEN sections
    ELSE [i \in 1..Len(sections) |->
             correct_section(sections[i], call_outcomes[i][1], call_outcomes[i][2])]

\* the outcomes that a call for this text can have, answers being those of a call
\* that is made; no call, no outcome
OutcomesFor(answers, is_enabled, text) ==
    IF CallsService(is_enabled, text) THEN answers ELSE {NoCall}

HeadingText(section) ==
    IF IsSome(section.original_heading) THEN Val(section.original_heading) ELSE ""

\* the outcomes that the calls made for the first n sections can have, a pair
\* <<outcome for the content, outcome for the heading>> per section
RECURSIVE OutcomeLists(_, _, _, _)
OutcomeLists(answers, is_enabled, sections, n) ==
    IF n = 0 THEN {<<>>}
    ELSE {Append(o, p) :
             o \in OutcomeLists(answers, is_enabled, sections, n - 1),
             p \in OutcomesFor(answers, is_enabled, sections[n].content)
                      \X OutcomesFor(answers, is_enabled, HeadingText(sections[n]))}

----------------------------------------------------------------------------
(* parser.py: DocumentParser.detect_section_type                           *)

\* re.sub(r'^<word>\s+\d+:?\s*', '', s) for word "section" or "part"
DropWordNumber(s, word) ==
    LET digits == SpacesEnd(s, Lit(s, 1, word))
        colon == digits + Span(s, digits, DigitSet)
        rest == IF Ch(s, colon) = ":" THEN colon + 1 ELSE colon
    IN  IF digits > 0 /\ colon > digits THEN From(s, rest + Span(s, rest, SpaceSet)) ELSE s

\* heading_clean: lower case, stripped, without the numbering in front
heading_clean(heading) ==
    Strip(DropWordNumber(DropWordNumber(
        StripNumbering(StripNumbering(Strip(Lower(heading)), RomanSet), DigitSet),
        "section"), "part"))

\* the keyword rules in the order of the "if" statements; the two Introduction rules
\* are apart from the list
rules_before_introduction ==
    <<<<"Abstract", {"abstract", "summary"}>>,
      <<"Keywords", {"keywords", "index terms", "key words"}>>>>

discussion_rule ==
    <<"Discussion", {"discussion", "analysis", "threat", "impact", "implication", "broader",
                     "what individuals can do", "recommendations", "solutions"}>>

rules_before_discussion ==
    <<<<"Methodology", {"methodology", "methods", "approach", "method"}>>,
      <<"Results", {"results", "findings", "experiments", "experimental results", "data",
                    "key finding"}>>,
      <<"Conclusion", {"conclusion", "concluding remarks", "conclusions", "ending",
                       "final thought", "final remarks", "closing"}>>,
      <<"References", {"references", "bibliography", "works cited"}>>,
      <<"Related Work", {"related work", "related works", "background", "backgrounds"}>>,
      <<"Literature Review", {"literature review", "literature"}>>>>

rules_after_discussion ==
    <<<<"Future Work", {"future work", "future works", "future research", "what next"}>>,
      <<"Acknowledgments", {"acknowledgment", "acknowledgments", "acknowledgement",
                            "acknowledgements"}>>,
      <<"Appendix", {"appendix", "appendices"}>>,
      <<"Authors", {"authors", "author"}>>,
      <<"Affiliation", {"affiliation", "affiliations", "institution"}>>>>

\* any(keyword in clean for keyword in keywords)
AnyKeyword(clean, keywords) == \E keyword \in keywords : Contains(clean, keyword)

\* the type of the first rule of the list that matches, "" if none does
FirstMatch(clean, rules) ==
    LET hits == {k \in 1..Len(rules) : AnyKeyword(clean, rules[k][2])}
    IN  IF hits = {} THEN "" ELSE rules[Least(hits)][1]

\* the "if" statements on heading_clean, one after the other
classify(clean) ==
    IF FirstMatch(clean, rules_before_introduction) # ""
    THEN FirstMatch(clean, rules_before_introduction)
    ELSE IF Contains(clean, "intro") /\ Len(clean) < 15 THEN "Introduction"
    ELSE IF Contains(clean, "introduction") THEN "Introduction"
    ELSE IF FirstMatch(clean, rules_before_discussion \o <<discussion_rule>>
                              \o rules_after_discussion) # ""
    THEN FirstMatch(clean, rules_before_discussion \o <<discussion_rule>>
                           \o rules_after_discussion)
    ELSE "Unknown"

detect_section_type(heading) == classify(heading_clean(heading))

\* a paragraph of the .docx file: its text, the name of its style, and whether its
\* first run is bold (FALSE when it has no run)
Paragraph(text, style, bold) == [text |-> text, style |-> style, bold |-> bold]

is_heading(para) ==
    \/ StartsWith(para.style, "Heading 1")
    \/ /\ para.bold
       /\ Len(Strip(para.text)) < 100
       /\ ~StartsWith(para.style, "Heading 2")

is_subheading(para) == StartsWith(para.style, "Heading 2")

\* the first non-empty paragraph text, None if there is none
extract_title(paras) ==
    LET filled == {i \in 1..Len(paras) : Strip(paras[i].text) # ""}
    IN  IF filled = {} THEN None ELSE Some(Strip(paras[Least(filled)].text))

\* the first loop of parse: the texts before the first heading, the paragraphs with
\* the text of the title skipped
pre_heading_paras(paras, title) ==
    LET IsTitle(i) == Truthy(title) /\ Strip(paras[i].text) = Val(title)
        headings == {i \in 1..Len(paras) : ~IsTitle(i) /\ is_heading(paras[i])}
        stop == IF headings = {} THEN Len(paras) + 1 ELSE Least(headings)
        Kept(i) == i < stop /\ ~IsTitle(i) /\ Strip(paras[i].text) # "" /\ Truthy(title)
        kept == SelectSeq([i \in 1..Len(paras) |-> i], Kept)
    IN  [k \in 1..Len(kept) |-> Strip(paras[kept[k]].text)]

\* the Title, Authors and Affiliation sections; ids are handed out in the order in
\* which parse creates the sections
front_sections(title, pre) ==
    (IF Truthy(title)
     THEN <<Section(1, "Title", Val(title), None, WordCount(Val(title)))>> ELSE <<>>)
    \o (IF Len(pre) >= 1
        THEN <<Section(2, "Authors", pre[1], None, WordCount(pre[1]))>> ELSE <<>>)
    \o (IF Len(pre) >= 2
        THEN <<Section(3, "Affiliation", Join(Tail(pre), "\n"), None,
                       WordCount(Join(Tail(pre), "\n")))>>
        ELSE <<>>)

\* The second loop of parse is a state st = [sections, current_heading,
\* current_content, current_subsections, next_id].

\* "Save previous section if exists"
close_section(st) ==
    IF st.current_heading = None THEN st
    ELSE [st EXCEPT
            !.sections = Append(@,
                [Section(st.next_id,
                         detect_section_type(Val(st.current_heading)),
                         Strip(Join(st.current_content, "\n")),
                         st.current_heading,
                         WordCount(Strip(Join(st.current_content, "\n"))))
                 EXCEPT !.subsections = st.current_subsections]),
            !.next_id = @ + 1]

\* a Heading 1 paragraph
open_section(st, text) ==
    [close_section(st) EXCEPT !.current_heading = Some(text),
                              !.current_content = <<>>,
                              !.current_subsections = <<>>]

\* a Heading 2 paragraph
open_subsection(st, text) ==
    [st EXCEPT !.current_subsections =
                   Append(@, Section(st.next_id, "Unknown", "", Some(text), 0)),
               !.next_id = @ + 1]

\* a paragraph of text, added to the last subsection or to the section
add_text(st, text) ==
    IF text = "" THEN st
    ELSE IF st.current_subsections # <<>>
    THEN [st EXCEPT !.current_subsections[Len(st.current_subsections)] =
            [@ EXCEPT !.content = IF @ # "" THEN @ \o "\n" \o text ELSE text,
                      !.word_count =
                          WordCount(IF st.current_subsections[Len(st.current_subsections)].content # ""
                                    THEN st.current_subsections[Len(st.current_subsections)].content
                                             \o "\n" \o text
                                    ELSE text)]]
    ELSE [st EXCEPT !.current_content = Append(@, text)]

\* one pass of the second loop
parse_paragraph(st, para, title, pre) ==
    IF Truthy(title) /\ Strip(para.text) = Val(title) THEN st
    ELSE IF \E k \in 1..Len(pre) : pre[k] = Strip(para.text) THEN st
    ELSE IF is_heading(para) THEN open_section(st, Strip(para.text))
    ELSE IF is_subheading(para) THEN open_subsection(st, Strip(para.text))
    ELSE add_text(st, Strip(para.text))

RECURSIVE ParseFrom(_, _, _, _, _)
ParseFrom(paras, i, title, pre, st) ==
    IF i > Len(paras) THEN close_section(st).sections
    ELSE ParseFrom(paras, i + 1, title, pre, parse_paragraph(st, paras[i], title, pre))

ParseWith(paras, title, pre) ==
    ParseFrom(paras, 1, title, pre,
              [sections |-> front_sections(title, pre), current_heading |-> None,
               current_content |-> <<>>, current_subsections |-> <<>>, next_id |-> 4])

\* DocumentParser.parse on the paragraphs of the file: the sections of the
\* ParsedDocument
parse(paras) ==
    ParseWith(paras, extract_title(paras),
              pre_heading_paras(paras, extract_title(paras)))

RECURSIVE TotalWords(_)
TotalWords(sections) ==
    IF sections = <<>> THEN 0
    ELSE sections[1].word_count + TotalWords(Tail(sections))

\* the metadata of the ParsedDocument that parse returns for the file at file_path
ParsedMetadata(file_path, sections) ==
    [original_file |-> file_path,
     total_sections |-> Len(sections),
     total_words |-> TotalWords(sections)]

----------------------------------------------------------------------------
(* user_edits.py: UserEditsApplicator                                      *)
(* Sections are objects that lists refer to. The heap is the sequence of   *)
(* all Section objects, a reference is an index of it, and a list of       *)
(* sections is a sequence of references: an assignment to a field of an    *)
(* object is seen through every list that refers to the object.            *)

UserEdits(author_name, author_email, affiliation, keywords, section_corrections) ==
    [author_name |-> author_name, author_email |-> author_email,
     affiliation |-> affiliation, keywords |-> keywords,
     section_corrections |-> section_corrections]

\* the sections that the references of refs point to
Deref(heap, refs) == [k \in 1..Len(refs) |-> heap[refs[k]]]

\* the list handed on without a copy: it refers to the objects of the caller
ShareSections(heap, refs) == [heap |-> heap, refs |-> refs]

\* [section.model_copy(deep=True) for section in document.sections]
CopySections(heap, refs) ==
    [heap |-> heap \o Deref(heap, refs), refs |-> [k \in 1..Len(refs) |-> Len(heap) + k]]

\* position in the list of the first section of the type, 0 if there is none
FirstOfType(st, type) ==
    LET hits == {k \in 1..Len(st.refs) : st.heap[st.refs[k]].type = type}
    IN  IF hits = {} THEN 0 ELSE Least(hits)

\* position in the list of the last section of the type among the first n, 0 if none
LastOfTypeBefore(st, type, n) ==
    LET hits == {k \in 1..n : st.heap[st.refs[k]].type = type}
    IN  IF hits = {} THEN 0 ELSE CHOOSE k \in hits : \A j \in hits : j <= k

\* str(uuid.uuid4()): an id that no section of the heap has
NewId(heap) ==
    LET ids == {0} \cup {heap[a].id : a \in 1..Len(heap)}
    IN  1 + CHOOSE i \in ids : \A j \in ids : j <= i

\* section.content = content; section.word_count = len(content.split()), for the
\* section at position k of the list
SetContent(st, k, content) ==
    [st EXCEPT !.heap[st.refs[k]] =
        [@ EXCEPT !.content = content, !.word_count = WordCount(content)]]

\* sections.insert(position, Section(id=uuid4, type, content, original_heading, word_count))
InsertNew(st, position, type, content, heading) ==
    [heap |-> Append(st.heap, Section(NewId(st.heap), type, content, Some(heading),
                                      WordCount(content))),
     refs |-> SubSeq(st.refs, 1, position) \o <<Len(st.heap) + 1>>
              \o SubSeq(st.refs, position + 1, Len(st.refs))]

\* the existing section of the type gets the content, or a new one is inserted
SetOrInsert(st, k, position, type, content, heading) ==
    IF k > 0 THEN SetContent(st, k, content)
    ELSE InsertNew(st, position, type, content, heading)

apply_section_corrections(st, corrections) ==
    [st EXCEPT !.heap =
        [a \in 1..Len(st.heap) |->
            IF (\E k \in 1..Len(st.refs) : st.refs[k] = a) /\ st.heap[a].id \in DOMAIN corrections
            THEN [st.heap[a] EXCEPT !.type = corrections[st.heap[a].id]]
            ELSE st.heap[a]]]

author_content(author_name, author_email) ==
    IF Truthy(author_name) /\ Truthy(author_email)
    THEN Val(author_name) \o "\n" \o Val(author_email)
    ELSE IF Truthy(author_name) THEN Val(author_name)
    ELSE IF Truthy(author_email) THEN Val(author_email)
    ELSE ""

apply_author_info(st, author_name, author_email) ==
    IF author_content(author_name, author_email) = "" THEN st
    ELSE SetOrInsert(st, FirstOfType(st, "Authors"), FirstOfType(st, "Title"), "Authors",
                     author_content(author_name, author_email), "Authors")

\* insert_position of _apply_affiliation: after the first Authors section, else after
\* the last Title section, else 0
AffiliationPosition(st) ==
    IF FirstOfType(st, "Authors") > 0 THEN FirstOfType(st, "Authors")
    ELSE LastOfTypeBefore(st, "Title", Len(st.refs))

apply_affiliation(st, affiliation) ==
    SetOrInsert(st, FirstOfType(st, "Affiliation"), AffiliationPosition(st), "Affiliation",
                affiliation, "Affiliation")

apply_keywords(st, keywords) ==
    SetOrInsert(st, FirstOfType(st, "Keywords"), FirstOfType(st, "Abstract"), "Keywords",
                Join(keywords, ", "), "Index Terms")

\* the four "if edits.<field>:" steps of apply_edits, each on the list left by the one
\* before
CorrectionsStep(st, e) ==
    IF IsSome(e.section_corrections) /\ DOMAIN Val(e.section_corrections) # {}
    THEN apply_section_corrections(st, Val(e.section_corrections)) ELSE st

AuthorStep(st, e) ==
    IF Truthy(e.author_name) \/ Truthy(e.author_email)
    THEN apply_author_info(st, e.author_name, e.author_email) ELSE st

AffiliationStep(st, e) ==
    IF Truthy(e.affiliation) THEN apply_affiliation(st, Val(e.affiliation)) ELSE st

KeywordsStep(st, e) ==
    IF IsSome(e.keywords) /\ Val(e.keywords) # <<>>
    THEN apply_keywords(st, Val(e.keywords)) ELSE st

create_edits_summary(e) ==
    [author_info_applied |-> Truthy(e.author_name) \/ Truthy(e.author_email),
     affiliation_applied |-> Truthy(e.affiliation),
     keywords_applied |-> IsSome(e.keywords) /\ Val(e.keywords) # <<>>,
     section_corrections_applied |->
         IsSome(e.section_corrections) /\ DOMAIN Val(e.section_corrections) # {}]

\* the ParsedDocument returned, and the heap as the call leaves it
UpdatedDocument(allow, st, document_metadata, e) ==
    [heap |-> st.heap,
     document |-> [sections |-> Deref(st.heap, st.refs),
                   metadata |-> Merge(document_metadata,
                                      [user_edits_applied |-> TRUE,
                                       auto_generation_allowed |-> allow,
                                       edits_summary |-> create_edits_summary(e)])]]

\* apply_edits on the document whose sections are the objects refs of the heap and
\* whose metadata is document_metadata
apply_edits(allow, heap, refs, document_metadata, e) ==
    UpdatedDocument(allow,
        KeywordsStep(AffiliationStep(AuthorStep(CorrectionsStep(
            CopySections(heap, refs), e), e), e), e), document_metadata, e)

----------------------------------------------------------------------------
(* main.py: upload_document, the pipeline run on a parsed document         *)

Idle == <<>>

NoDocument == [sections |-> <<>>, metadata |-> <<>>, compliance_score |-> Zero]

DefaultHeading(t) == IF t = "Unknown" THEN "Miscellaneous" ELSE t

DefaultContent(t) ==
    CASE t = "References"   -> "Smith, J. (2020). A.\n\nJones, A. (2021). B."
      [] t = "Introduction" -> "As (Smith, 2020) said."
      [] t = "Unknown"      -> "Jones (2021) agrees."
      [] OTHER              -> "Some text."

\* a parsed document whose i-th section has type types[i]; the parser gives no
\* heading to Title, Authors and Affiliation
TypedDocument(types, headed) ==
    [i \in 1..Len(types) |->
        Section(i, types[i], DefaultContent(types[i]),
                IF headed /\ types[i] \notin {"Title", "Authors", "Affiliation"}
                THEN Some(DefaultHeading(types[i])) ELSE None,
                WordCount(DefaultContent(types[i])))]

TypeLists == UNION {[1..n -> SectionType] : n \in 0..MaxSections}

InitCommon(position, doc, formatted_document, issue_list, is_enabled) ==
    /\ pc = position
    /\ document = doc
    /\ formatted = formatted_document
    /\ issues = issue_list
    /\ compliance = Idle
    /\ fixes = Idle
    /\ citation_map = EmptyMap
    /\ next_citation_number = 1
    /\ returned = Idle
    /\ enabled = is_enabled
    /\ outcomes = Idle
    /\ calls = 0

\* the state before an operation runs that reads neither edits nor metadata
InitState(position, doc, formatted_document, issue_list, is_enabled) ==
    /\ InitCommon(position, doc, formatted_document, issue_list, is_enabled)
    /\ edits = Idle
    /\ allow_auto_generation = FALSE
    /\ paragraphs = <<>>
    /\ metadata = EmptyDict

\* the file that upload_document saves the upload to: a fresh name under uploads/
FilePath == "uploads/paper.docx"

\* upload_document with the document parsed, in a process where GEMINI_API_KEY is
\* set (is_enabled) or not
InitWith(doc, is_enabled) ==
    /\ InitCommon("parsed", doc, NoDocument, Idle, is_enabled)
    /\ edits = Idle
    /\ allow_auto_generation = FALSE
    /\ paragraphs = <<>>
    /\ metadata = ParsedMetadata(FilePath, doc)

\* the members of seq at the positions keep, in order
Kept(seq, keep) ==
    LET Here(t) == \E k \in keep : seq[k] = t
    IN  SelectSeq(seq, Here)

\* the required types in the order of section_order
RequiredPaper == Kept(section_order, {k \in 1..Len(section_order) : section_order[k] \in REQUIRED_SECTIONS})

\* the required sections of a paper that lacks at most MaxMissing of them
PaperBodies ==
    {Kept(RequiredPaper, keep) :
        keep \in {K \in SUBSET (1..Len(RequiredPaper)) :
                     Len(RequiredPaper) - Cardinality(K) <= MaxMissing}}

\* the uploads: such a paper as it is, with one more section of any type before it or
\* behind it, and the paper that is a title alone
PaperTypes ==
    PaperBodies
    \cup {<<t>> \o body : t \in SectionType, body \in PaperBodies}
    \cup {body \o <<t>> : t \in SectionType, body \in PaperBodies}
    \cup {<<"Title">>}

\* the answers of the correction service to one call
Answers == {Exception, Response("Fixed text.")}

\* the number of calls of the service that correct makes for the sections
ServiceCalls(sections) ==
    Cardinality({i \in 1..Len(sections) : CallsService(TRUE, sections[i].content)})
    + Cardinality({i \in 1..Len(sections) : CallsService(TRUE, HeadingText(sections[i]))})

Init ==
    \E types \in PaperTypes, headed \in BOOLEAN, is_enabled \in BOOLEAN :
        /\ is_enabled => ServiceCalls(TypedDocument(types, headed)) <= MaxServiceCalls
        /\ InitWith(TypedDocument(types, headed), is_enabled)

\* upload_document from the parsed document on: the sections corrected by the
\* GrammarCorrector (document stays what document_before is, the copy made before),
\* format and detect_issues on the corrected document, calculate, the score written
\* into the formatted document, track_changes against document_before
Upload ==
    /\ pc = "parsed"
    /\ \E o \in OutcomeLists(Answers, enabled, document, Len(document)) :
          \E corrected_sections \in {correct(enabled, document, o)} :
              \E formatted_doc \in {format(corrected_sections, metadata)} :
                  /\ outcomes' = o
                  /\ returned' = corrected_sections
                  /\ fixes' = track_changes(document, formatted_doc.sections)
                  /\ \E order \in IterationOrdersFor(corrected_sections) :
                         issues' = detect_issues(order, corrected_sections)
                  /\ compliance' = calculate(formatted_doc.sections, issues')
                  /\ formatted' = [formatted_doc EXCEPT
                                      !.compliance_score = compliance'.score]
    /\ pc' = "done"
    /\ UNCHANGED <<edits, allow_auto_generation, paragraphs, metadata>>
    /\ UNCHANGED <<document, citation_map, next_citation_number, enabled, calls>>

Next == Upload

Spec == Init /\ [][Next]_vars

\* formatted_doc = formatter.format(parsed_doc), the formatter called on its own
Format ==
    /\ pc = "parsed"
    /\ formatted' = format(document, metadata)
    /\ pc' = "formatted"
    /\ UNCHANGED <<edits, allow_auto_generation, paragraphs, metadata>>
    /\ UNCHANGED <<document, issues, compliance, fixes, citation_map,
                   next_citation_number, returned, enabled, outcomes, calls>>

InitFormat ==
    \E types \in TypeLists, headed \in BOOLEAN, is_enabled \in BOOLEAN :
        InitWith(TypedDocument(types, headed), is_enabled)

NextFormat == Format

SpecFormat == InitFormat /\ [][NextFormat]_vars

\* Documents that exercise the heading rules of apply_numbering
HeadingPool ==
    {<<"Conclusion", Some("Final Thoughts")>>,
     <<"Conclusion", Some("FINAL THOUGHTS")>>,
     <<"Conclusion", Some("final thoughts")>>,
     <<"Conclusion", Some("IV. Final Thoughts")>>,
     <<"Conclusion", Some("3. final Thoughts")>>,
     <<"Conclusion", Some("Section 5: Final Thoughts")>>,
     <<"Conclusion", Some("Conclusions")>>,
     <<"Introduction", Some("1. Introduction")>>,
     <<"Results", None>>,
     <<"Results", Some("Section 3: Results")>>,
     <<"Abstract", Some("Summary")>>,
     <<"Keywords", Some("II. Keywords")>>,
     <<"Authors", Some("Authors")>>,
     <<"Title", None>>}

HeadingDocument(picks) ==
    [i \in 1..Len(picks) |->
        Section(i, picks[i][1], "Some text.", picks[i][2], WordCount("Some text."))]

InitHeadings ==
    \E picks \in UNION {[1..n -> HeadingPool] : n \in 0..MaxSections},
       is_enabled \in BOOLEAN :
        InitWith(HeadingDocument(picks), is_enabled)

----------------------------------------------------------------------------
(* ComplianceScorer.calculate on formatted documents and issue lists       *)

Formatted(sections) == [NoDocument EXCEPT !.sections = sections]

AbstractWordCounts ==
    {<<>>, <<0>>, <<149>>, <<150>>, <<200>>, <<250>>, <<251>>, <<149, 200>>, <<200, 300>>}

OtherRequired ==
    <<"Keywords", "Introduction", "Methodology", "Results", "Conclusion", "References">>

ScorerSection(id, type, wc, heading) ==
    [Section(id, type, "Some text.", None, wc) EXCEPT !.formatted_heading = heading]

\* a Title, one Abstract per word count, and the first k other required sections, of
\* which the first "unheaded" have no formatted heading or a blank one
ScorerDocument(abstracts, k, unheaded) ==
    <<ScorerSection(1, "Title", 5, None)>>
    \o [i \in 1..Len(abstracts) |-> ScorerSection(1 + i, "Abstract", abstracts[i], Some("Abstract"))]
    \o [i \in 1..k |->
           ScorerSection(1 + Len(abstracts) + i, OtherRequired[i], 2,
                         IF i > unheaded THEN Some(Upper(OtherRequired[i]))
                         ELSE IF i % 2 = 1 THEN None ELSE Some("  "))]

ScorerIssues(high, out_of_order) ==
    [i \in 1..high |-> Issue("missing_required_section", "Abstract", "high")]
    \o (IF out_of_order THEN <<Issue("section_out_of_order", "Results", "medium")>> ELSE <<>>)

InitScorer ==
    \E abstracts \in AbstractWordCounts, k \in 0..Len(OtherRequired),
       high \in 0..MaxHighIssues, out_of_order \in BOOLEAN :
        \E unheaded \in 0..k :
            InitState("formatted", <<>>,
                      Formatted(ScorerDocument(abstracts, k, unheaded)),
                      ScorerIssues(high, out_of_order), FALSE)

\* compliance = scorer.calculate(formatted_doc, issues)
Calculate ==
    /\ pc = "formatted"
    /\ compliance' = calculate(formatted.sections, issues)
    /\ pc' = "scored"
    /\ UNCHANGED <<edits, allow_auto_generation, paragraphs, metadata>>
    /\ UNCHANGED <<document, formatted, issues, fixes, citation_map,
                   next_citation_number, returned, enabled, outcomes, calls>>

NextScorer == Calculate

SpecScorer == InitScorer /\ [][NextScorer]_vars

\* format and, on the document it returns, calculate without any issue
NextHeadings == Format \/ Calculate

SpecHeadings == InitHeadings /\ [][NextHeadings]_vars

----------------------------------------------------------------------------
(* One CitationConverter used for several calls                            *)

TextSection(id, type, content) == Section(id, type, content, None, WordCount(content))

ConverterDocuments ==
    {<<>>,
     <<TextSection(1, "Introduction", "No citation here.")>>,
     <<TextSection(1, "Results", "Both [Lee, 2021] and (Kim, 2018)."),
       TextSection(2, "Unknown", "Jones (2019) agrees.")>>,
     <<TextSection(1, "Abstract", "Jones et al. (2019) and [Lee, 2021] agree."),
       TextSection(2, "References", "Kim, S. (2018). Only.\nsecond line of it")>>,
     <<TextSection(1, "Introduction", "As (Smith, 2020) said.")>>,
     <<TextSection(1, "Introduction", "Jones et al. (2019) and [Lee, 2021] agree."),
       TextSection(2, "Conclusion", "No citation here.")>>,
     <<TextSection(1, "Unknown", "See (Smith, 2020).")>>,
     <<TextSection(1, "Introduction", "As (Smith, 2020) said."),
       TextSection(2, "References",
                   "Zeta, A. (2021). Last first.\n\nAlpha, B. (1999). First last.")>>,
     <<TextSection(1, "References",
                   "[1] Beta, C. (2005). Numbered.\n2. Gamma, D. (2010). Dotted.\n- Delta, E. (2015). Bulleted.\n  continued line")>>,
     <<TextSection(1, "References", "")>>,
     <<TextSection(1, "References", "Smith, J. (2020). Same.\n\nSmith, J. (2020). Same."),
       TextSection(2, "Introduction", "Jones (2019) agrees.")>>,
     <<TextSection(1, "References", "Alpha, B. (1999). One."),
       TextSection(2, "Results", "Jones (2019) agrees."),
       TextSection(3, "References", "Omega, Z. (2000). Two.")>>}

InitConverter == InitState("converter", <<>>, NoDocument, Idle, FALSE)

\* one call of convert_references on the converter as the calls before left it
Converted(result) ==
    /\ returned' = result.sections
    /\ citation_map' = result.conv.citation_map
    /\ next_citation_number' = result.conv.next_citation_number

ConvertReferences ==
    /\ pc \in {"converter", "converted"}
    /\ calls < MaxCalls
    /\ \E doc \in ConverterDocuments :
          /\ document' = doc
          /\ Converted(convert_references(
                 [citation_map |-> citation_map,
                  next_citation_number |-> next_citation_number], doc))
    /\ calls' = calls + 1
    /\ pc' = "converted"
    /\ UNCHANGED <<edits, allow_auto_generation, paragraphs, metadata>>
    /\ UNCHANGED <<formatted, issues, compliance, fixes, enabled, outcomes>>

Reset ==
    /\ pc = "converted"
    /\ Converted([conv |-> reset([citation_map |-> citation_map,
                                  next_citation_number |-> next_citation_number]),
                  sections |-> Idle])
    /\ pc' = "converter"
    /\ UNCHANGED <<edits, allow_auto_generation, paragraphs, metadata>>
    /\ UNCHANGED <<document, formatted, issues, compliance, fixes, enabled, outcomes,
                   calls>>

NextConverter == ConvertReferences \/ Reset

SpecConverter == InitConverter /\ [][NextConverter]_vars

----------------------------------------------------------------------------
(* ChangeTracker.track_changes on pairs of documents                       *)

\* sections as the parser leaves them
ParsedPool ==
    {Section(id, "Introduction", "Teh text.", heading, 2) :
        id \in 1..2, heading \in {None, Some("Intro")}}

\* sections as the formatter (and the corrector) leave them
FormattedPool ==
    {[Section(id, type, content, Some("Intro"), 2) EXCEPT
         !.formatted_heading = Some("I. INTRODUCTION"),
         !.font_rule = Some(font_rules[type]),
         !.heading_font_rule = Some(heading_font_rule)] :
        id \in 1..2, type \in {"Introduction", "Results"},
        content \in {"Teh text.", "The text."}}
    \cup {[Section(1, "Introduction", "Teh  text.", Some("Intro"), 2) EXCEPT
               !.formatted_heading = Some("I. INTRODUCTION"),
               !.font_rule = Some(font_rules["Introduction"]),
               !.heading_font_rule = Some(heading_font_rule)]}

UpTo(pool, n) == UNION {[1..k -> pool] : k \in 0..n}

\* a parsed document with its formatted document, or one list of sections handed
\* to track_changes on both sides
InitTracker ==
    \/ \E before \in UpTo(ParsedPool, MaxTracked), after \in UpTo(FormattedPool, MaxTracked) :
          InitState("track", before, Formatted(after), Idle, FALSE)
    \/ \E d \in UpTo(ParsedPool \cup FormattedPool, MaxTracked) :
          InitState("track", d, Formatted(d), Idle, FALSE)

TrackChanges ==
    /\ pc = "track"
    /\ fixes' = track_changes(document, formatted.sections)
    /\ pc' = "tracked"
    /\ UNCHANGED <<edits, allow_auto_generation, paragraphs, metadata>>
    /\ UNCHANGED <<document, formatted, issues, compliance, citation_map,
                   next_citation_number, returned, enabled, outcomes, calls>>

NextTracker == TrackChanges

SpecTracker == InitTracker /\ [][NextTracker]_vars

----------------------------------------------------------------------------
(* GrammarCorrector.correct under every pattern of call outcomes           *)

CorrectorPool ==
    {<<"Teh text.", Some("Intro")>>, <<"", None>>, <<" ", Some("")>>,
     <<"Anothr text.", None>>}

CorrectorDocument(picks) ==
    [i \in 1..Len(picks) |->
        Section(i, IF i = 1 THEN "Introduction" ELSE "Results", picks[i][1], picks[i][2],
                WordCount(picks[i][1]))]

Outcomes ==
    {Exception, Response(""), Response("  "), Response("Fixed text."),
     Response(" Fixed text. \n")}

InitCorrector ==
    \E is_enabled \in BOOLEAN, picks \in UpTo(CorrectorPool, MaxCorrected) :
        InitState("correct", CorrectorDocument(picks), NoDocument, Idle, is_enabled)

Correct ==
    /\ pc = "correct"
    /\ \E o \in OutcomeLists(Outcomes, enabled, document, Len(document)) :
          /\ outcomes' = o
          /\ returned' = correct(enabled, document, o)
    /\ pc' = "corrected"
    /\ UNCHANGED <<edits, allow_auto_generation, paragraphs, metadata>>
    /\ UNCHANGED <<document, formatted, issues, compliance, fixes, citation_map,
                   next_citation_number, enabled, calls>>

NextCorrector == Correct

SpecCorrector == InitCorrector /\ [][NextCorrector]_vars

----------------------------------------------------------------------------
(* DocumentParser.detect_section_type on the heading of a section          *)

ClassifierHeadings ==
    {prefix \o base \o suffix :
        prefix \in {"", "IV. ", "Section 3: "},
        base \in {"Future Work", "Acknowledgments", "Appendix", "Authors", "Affiliation",
                  "Methods", "Results", "Introduction", "Related Work", "Abstract",
                  "Discussion", "Zebra"},
        suffix \in {"", " and Impact", " Analysis"}}

\* the parser holds current_heading and the content gathered under it
InitClassifier ==
    \E heading \in ClassifierHeadings :
        InitState("classify", <<Section(1, "Unknown", "Some text.", Some(heading), 2)>>,
                  NoDocument, Idle, FALSE)

\* the parser closes the section: its type is detect_section_type(current_heading)
DetectSectionType ==
    /\ pc = "classify"
    /\ returned' = <<[document[1] EXCEPT
                        !.type = detect_section_type(Val(document[1].original_heading))]>>
    /\ pc' = "classified"
    /\ UNCHANGED <<edits, allow_auto_generation, paragraphs, metadata>>
    /\ UNCHANGED <<document, formatted, issues, compliance, fixes, citation_map,
                   next_citation_number, enabled, outcomes, calls>>

NextClassifier == DetectSectionType

SpecClassifier == InitClassifier /\ [][NextClassifier]_vars

----------------------------------------------------------------------------
(* UserEditsApplicator.apply_edits on its own: the caller keeps the parsed *)
(* document and hands it to apply_edits with the edits of the user.        *)

EditedPool ==
    {Section(1, "Title", "A Study", None, 2),
     Section(2, "Authors", "Ada Lovelace", Some("Authors"), 2),
     Section(3, "Affiliation", "Old Lab", Some("Affiliation"), 2),
     Section(4, "Abstract", "We study things.", Some("Abstract"), 3),
     Section(5, "Keywords", "old, terms", Some("Keywords"), 2),
     Section(6, "Unknown", "Some text.", Some("Approach"), 2)}

\* the documents: lists of sections with distinct ids
EditedDocuments ==
    {d \in UpTo(EditedPool, MaxEdited) : \A i, j \in 1..Len(d) : d[i] = d[j] => i = j}

EditsPool ==
    {UserEdits(name, email, affiliation, keywords, corrections) :
        name \in {None, Some(""), Some("Grace Hopper")},
        email \in {None, Some("grace@navy.mil")},
        affiliation \in {None, Some("Yale University")},
        keywords \in {None, Some(<<>>), Some(<<"compilers", "cobol">>)},
        corrections \in {None, Some(<<>>), Some(6 :> "Methodology")}}

InitEdits ==
    \E doc \in EditedDocuments, e \in EditsPool, allow \in BOOLEAN :
        \E document_metadata \in {EmptyDict, ParsedMetadata(FilePath, doc)} :
            /\ InitCommon("edit", doc, NoDocument, Idle, FALSE)
            /\ edits = <<e>>
            /\ allow_auto_generation = allow
            /\ paragraphs = <<>>
            /\ metadata = document_metadata

\* updated = applicator.apply_edits(document, edits): the sections of the caller are
\* the first objects of the heap, and stay where they are
ApplyEdits ==
    /\ pc = "edit"
    /\ \E out \in {apply_edits(allow_auto_generation, document,
                                [k \in 1..Len(document) |-> k], metadata, Val(edits))} :
          /\ document' = SubSeq(out.heap, 1, Len(document))
          /\ returned' = out.document
    /\ pc' = "edited"
    /\ UNCHANGED <<formatted, issues, compliance, fixes, citation_map,
                   next_citation_number, enabled, outcomes, calls, edits,
                   allow_auto_generation, paragraphs, metadata>>

NextEdits == ApplyEdits

SpecEdits == InitEdits /\ [][NextEdits]_vars

----------------------------------------------------------------------------
(* DocumentParser.parse on the paragraphs of a file                        *)

ParagraphPool ==
    {Paragraph("", "Normal", FALSE),
     Paragraph("My Paper", "Normal", FALSE),
     Paragraph("Ada Lovelace", "Normal", FALSE),
     Paragraph("MIT Lab", "Normal", FALSE),
     Paragraph("Introduction", "Heading 1", FALSE),
     Paragraph("Abstract", "Normal", TRUE),
     Paragraph("Setup", "Heading 2", FALSE),
     Paragraph("Some text.", "Normal", FALSE)}

InitParser ==
    \E stream \in UpTo(ParagraphPool, MaxParagraphs) :
        /\ InitCommon("parse", <<>>, NoDocument, Idle, FALSE)
        /\ edits = Idle
        /\ allow_auto_generation = FALSE
        /\ paragraphs = stream
        /\ metadata = EmptyDict

\* parsed_doc = parser.parse(temp_path): the parsed document is what the rest of
\* upload_document works on
Parse ==
    /\ pc = "parse"
    /\ document' = parse(paragraphs)
    /\ metadata' = ParsedMetadata(FilePath, document')
    /\ pc' = "parsed"
    /\ UNCHANGED <<formatted, issues, compliance, fixes, citation_map,
                   next_citation_number, returned, enabled, outcomes, calls, edits,
                   allow_auto_generation, paragraphs>>

NextParser == Parse

SpecParser == InitParser /\ [][NextParser]_vars

\* the file parsed and the parsed document formatted
NextPipeline == Parse \/ Format

SpecPipeline == InitParser /\ [][NextPipeline]_vars

----------------------------------------------------------------------------
(* Properties                                                              *)

Types(sections) == [i \in 1..Len(sections) |-> sections[i].type]
IdList(sections) == [i \in 1..Len(sections) |-> sections[i].id]

\* C1: the output of reorder_sections (and of format) lists the sections of the 16
\* canonical types in canonical order, keeps every input section of such a type
\* exactly once, and two sections of the same type keep their input order.
Thm_C1_CanonicalOrder ==
    pc = "formatted" =>
        /\ \A i, j \in 1..Len(formatted.sections) :
              (i < j /\ expected_position(formatted.sections[i].type) # -1
                     /\ expected_position(formatted.sections[j].type) # -1)
              => /\ expected_position(formatted.sections[i].type) <= expected_position(formatted.sections[j].type)
                 /\ formatted.sections[i].type = formatted.sections[j].type
                    => PositionOf(document, formatted.sections[i].id) < PositionOf(document, formatted.sections[j].id)
        /\ \A k \in 1..Len(document) :
              expected_position(document[k].type) # -1
              => Cardinality({i \in 1..Len(formatted.sections) :
                                 /\ formatted.sections[i].id = document[k].id
                                 /\ formatted.sections[i].type = document[k].type}) = 1

Wit_C1_Reordered ==
    /\ pc = "formatted"
    /\ Types(document) = <<"Results", "Introduction", "Results">>
    /\ IdList(formatted.sections) = <<2, 1, 3>>

\* C2 (as claimed): format returns exactly the input's sections by id, each with the
\* type of its input counterpart, whatever the types (Unknown included).
Cex_C2_NoSectionDestroyed ==
    pc = "formatted" =>
        /\ Len(formatted.sections) = Len(document)
        /\ Ids(formatted.sections) = Ids(document)
        /\ \A i \in 1..Len(formatted.sections) :
              \E k \in 1..Len(document) :
                  document[k].id = formatted.sections[i].id /\ document[k].type = formatted.sections[i].type

MissingIssues(iss, t) ==
    {i \in 1..Len(iss) : iss[i].type = "missing_required_section" /\ iss[i].section = t}

\* C5: detect_issues emits exactly one HIGH missing_required_section issue per
\* required type absent from the document and none for a type that is present; the
\* required-sections component is (required types present)/7; a Title-only document
\* gets 7 such issues and a component of 0.
Thm_C5_MissingRequired ==
    pc = "done" =>
        LET present == {t \in RequiredSet : \E k \in 1..Len(returned) : returned[k].type = t}
            all == {i \in 1..Len(issues) : issues[i].type = "missing_required_section"}
        IN  /\ Cardinality(RequiredSet) = 7
            /\ \A t \in RequiredSet :
                  Cardinality(MissingIssues(issues, t)) = (IF t \in present THEN 0 ELSE 1)
            /\ \A i \in all : issues[i].severity = "high" /\ issues[i].section \in RequiredSet
            /\ Cardinality(all) = 7 - Cardinality(present)
            /\ compliance.breakdown.required_sections = Float(Cardinality(present), 7)
            /\ Types(returned) = <<"Title">>
                  => Cardinality(all) = 7 /\ compliance.breakdown.required_sections = Zero

Wit_C5_TitleOnly ==
    /\ pc = "done"
    /\ Types(returned) = <<"Title">>
    /\ Cardinality({i \in 1..Len(issues) : issues[i].type = "missing_required_section"}) = 7
    /\ compliance.breakdown.required_sections = Zero

FinalThoughtsHeadings ==
    {"Final Thoughts", "FINAL THOUGHTS", "final thoughts", "IV. Final Thoughts",
     "3. final Thoughts", "Section 5: Final Thoughts"}

RomanTable == <<"I", "II", "III", "IV", "V", "VI", "VII", "VIII", "IX", "X">>

\* rank of the i-th output section among the numbered sections of the output
NumberedRank(sections, i) ==
    Cardinality({k \in 1..i : sections[k].type \in numbered_sections})

\* C8: a Conclusion section whose original heading is "Final Thoughts" (any letter
\* case, with or without a numeral prefix) gets the formatted heading
\* "<Roman>. CONCLUSION", <Roman> being its rank among the numbered output sections.
Thm_C8_FinalThoughts ==
    pc \in {"formatted", "scored"} =>
        \A i \in 1..Len(formatted.sections) :
            (/\ formatted.sections[i].type = "Conclusion"
             /\ IsSome(formatted.sections[i].original_heading)
             /\ Val(formatted.sections[i].original_heading) \in FinalThoughtsHeadings)
            => formatted.sections[i].formatted_heading
                  = Some(RomanTable[NumberedRank(formatted.sections, i)] \o ". CONCLUSION")

Wit_C8_FinalThoughts ==
    /\ pc = "formatted"
    /\ Len(formatted.sections) = 3
    /\ formatted.sections[3].original_heading = Some("IV. Final Thoughts")
    /\ formatted.sections[3].formatted_heading = Some("III. CONCLUSION")
    /\ formatted.sections[2].original_heading = Some("final thoughts")
    /\ formatted.sections[2].formatted_heading = Some("II. CONCLUSION")

\* x <= y for floats
FloatLeq(x, y) == ~FloatLess(y, x)

InUnit(x) == FloatLeq(Zero, x) /\ FloatLeq(x, One)

ComponentNames ==
    {"required_sections", "section_order", "abstract_compliance", "heading_hierarchy",
     "formatting_consistency"}

WeightSum(w) ==
    FloatAdd(FloatAdd(FloatAdd(FloatAdd(w.required_sections, w.section_order),
        w.abstract_compliance), w.heading_hierarchy), w.formatting_consistency)

\* C3: calculate returns a score in [0, 100], a breakdown of exactly five components
\* each in [0, 1], and five weights whose sum is within 1/1000 of 1, whatever the
\* sections and however many HIGH issues there are.
Thm_C3_ScoreRange ==
    pc = "scored" =>
        /\ FloatLeq(Zero, compliance.score) /\ FloatLeq(compliance.score, Hundred)
        /\ DOMAIN compliance.breakdown = ComponentNames
        /\ \A c \in ComponentNames : InUnit(compliance.breakdown[c])
        /\ DOMAIN compliance.weights = ComponentNames
        /\ FloatLeq(Float(999, 1000), WeightSum(compliance.weights))
        /\ FloatLeq(WeightSum(compliance.weights), Float(1001, 1000))

HighCount(iss) == Cardinality({i \in 1..Len(iss) : iss[i].severity = "high"})

Wit_C3_SixHighIssues ==
    /\ pc = "scored"
    /\ HighCount(issues) = 6
    /\ compliance.breakdown.formatting_consistency = Zero
    /\ compliance.breakdown.required_sections = One

AbstractCounts(sections) ==
    LET IsAbstract(x) == x.type = "Abstract"
        abstracts == SelectSeq(sections, IsAbstract)
    IN  [i \in 1..Len(abstracts) |-> abstracts[i].word_count]

ExpectedAbstract(counts) ==
    IF counts = <<>> THEN Zero
    ELSE IF counts[1] >= 150 /\ counts[1] <= 250 THEN One
    ELSE Float(6, 10)

\* C4: the abstract component is 0 without an Abstract section, 1 when the word
\* count w of the (first) Abstract has 150 <= w <= 250, and 0.6 otherwise; 150 and
\* 250 give 1, 149 and 251 give 0.6.
Thm_C4_AbstractCompliance ==
    pc = "scored" =>
        /\ compliance.breakdown.abstract_compliance
              = ExpectedAbstract(AbstractCounts(formatted.sections))
        /\ AbstractCounts(formatted.sections) \in {<<150>>, <<250>>}
              => compliance.breakdown.abstract_compliance = One
        /\ AbstractCounts(formatted.sections) \in {<<149>>, <<251>>}
              => compliance.breakdown.abstract_compliance = Float(6, 10)

Wit_C4_UpperBound ==
    /\ pc = "scored"
    /\ AbstractCounts(formatted.sections) = <<250>>
    /\ compliance.breakdown.abstract_compliance = One

Lines(content) == Split(content, "\n")

\* the lines of the body at the odd positions, the even ones being the separators
Blocks(content) ==
    IF content = "" THEN <<>>
    ELSE [i \in 1..((Len(Lines(content)) + 1) \div 2) |-> Lines(content)[2 * i - 1]]

SeparatedByBlankLines(content) ==
    content # "" =>
        /\ Len(Lines(content)) % 2 = 1
        /\ \A i \in 1..Len(Lines(content)) : i % 2 = 0 => Lines(content)[i] = ""

NumberedEntries(entries) ==
    [i \in 1..Len(entries) |-> "[" \o Str(i) \o "] " \o entries[i]]

ReferencesBody(sections) == sections[ReferencesIndex(sections)].content

\* C6: after a conversion of a document with a References section, the body of that
\* section is made of the blocks "[1] e1", ..., "[k] ek" separated by blank lines,
\* e1..ek being the entries of the original body in the order of the body.
Thm_C6_ReferenceOrder ==
    (pc = "converted" /\ ReferencesIndex(document) # 0) =>
        /\ Blocks(ReferencesBody(returned))
              = NumberedEntries(extract_citations(ReferencesBody(document)))
        /\ SeparatedByBlankLines(ReferencesBody(returned))

Wit_C6_ZetaBeforeAlpha ==
    /\ pc = "converted"
    /\ ReferencesIndex(document) # 0
    /\ ReferencesBody(document)
          = "Zeta, A. (2021). Last first.\n\nAlpha, B. (1999). First last."
    /\ ReferencesBody(returned)
          = "[1] Zeta, A. (2021). Last first.\n\n[2] Alpha, B. (1999). First last."

\* C7: a call of convert_references on sections without a References section returns
\* the sections as they are and leaves citation_map and next_citation_number as
\* they were before the call.
Thm_C7_NoReferencesNoOp ==
    [][(calls' = calls + 1 /\ ReferencesIndex(document') = 0)
          => /\ returned' = document'
             /\ citation_map' = citation_map
             /\ next_citation_number' = next_citation_number]_vars

Wit_C7_MarkersKept ==
    /\ pc = "converted"
    /\ calls >= 2
    /\ ReferencesIndex(document) = 0
    /\ document # <<>>
    /\ document[1].content = "As (Smith, 2020) said."
    /\ returned = document
    /\ next_citation_number > 1

FixIds(fs) == {fs[k].section_id : k \in 1..Len(fs)}

\* C9: every Fix returned by track_changes carries the id of a section of the before
\* document and of the after document; a section of the after document whose id is
\* not in the before document gets no Fix at all.
Thm_C9_FixesOnSharedIds ==
    pc = "tracked" =>
        /\ FixIds(fixes) \subseteq (Ids(document) \cap Ids(formatted.sections))
        /\ \A i \in 1..Len(formatted.sections) :
              formatted.sections[i].id \notin Ids(document)
              => formatted.sections[i].id \notin FixIds(fixes)

Wit_C9_NewSectionSilent ==
    /\ pc = "tracked"
    /\ IdList(document) = <<1>>
    /\ IdList(formatted.sections) = <<2, 1>>
    /\ FixIds(fixes) = {1}

Succeeded(outcome) == outcome \notin {Exception, NoCall} /\ outcome[2] # ""

Applied(text, outcome) == IF Succeeded(outcome) THEN Strip(outcome[2]) ELSE text

\* C10: correct always returns, with as many sections as it was given, in the same
\* order and equal to the given ones but for content and original_heading; a text
\* whose call fails (exception or empty response) or is not made stays as it was,
\* a text whose call succeeds becomes the stripped response.
Thm_C10_FailuresKeepOriginal ==
    /\ pc = "correct" => ENABLED Correct
    /\ pc = "corrected" =>
          /\ Len(returned) = Len(document)
          /\ \A i \in 1..Len(document) :
                /\ returned[i] = [document[i] EXCEPT
                                     !.content = returned[i].content,
                                     !.original_heading = returned[i].original_heading]
                /\ returned[i].content = Applied(document[i].content, outcomes[i][1])
                /\ IsSome(returned[i].original_heading) = IsSome(document[i].original_heading)
                /\ HeadingText(returned[i]) = Applied(HeadingText(document[i]), outcomes[i][2])

Wit_C10_MixedOutcomes ==
    /\ pc = "corrected"
    /\ Len(document) = 2
    /\ outcomes[1] = <<Exception, Response(" Fixed text. \n")>>
    /\ outcomes[2] = <<Response("Fixed text."), NoCall>>
    /\ returned[1].content = "Teh text."
    /\ returned[1].original_heading = Some("Fixed text.")
    /\ returned[2].content = "Fixed text."

\* the types other than Discussion of which the cleaned heading has a keyword
OtherTypes(clean) ==
    {rule[1] : rule \in {r \in {rules_before_introduction[k] : k \in 1..Len(rules_before_introduction)}
                                \cup {rules_before_discussion[k] : k \in 1..Len(rules_before_discussion)}
                                \cup {rules_after_discussion[k] : k \in 1..Len(rules_after_discussion)} :
                            AnyKeyword(clean, r[2])}}
    \cup (IF Contains(clean, "introduction") \/ (Contains(clean, "intro") /\ Len(clean) < 15)
          THEN {"Introduction"} ELSE {})

ClassifiedHeading == heading_clean(Val(document[1].original_heading))

\* C11 (as claimed): the Discussion rule is evaluated last, so a heading with a
\* Discussion keyword and a keyword of another type gets that other type, and a
\* heading that matches no rule is Unknown.
Cex_C11_DiscussionLast ==
    pc = "classified" =>
        /\ (AnyKeyword(ClassifiedHeading, discussion_rule[2]) /\ OtherTypes(ClassifiedHeading) # {})
              => returned[1].type \in OtherTypes(ClassifiedHeading)
        /\ (~AnyKeyword(ClassifiedHeading, discussion_rule[2]) /\ OtherTypes(ClassifiedHeading) = {})
              => returned[1].type = "Unknown"

\* TRUE iff the heading starts with a Roman numeral and ". "
CarriesNumeral(heading) ==
    \E k \in 1..Len(RomanTable) : StartsWith(heading, RomanTable[k] \o ". ")

\* C12: in the output of format the k-th section of a numbered type has a formatted
\* heading that starts with the Roman numeral of k and ". ", has no lower-case
\* letter, and has a bold heading font rule; a section of type Title, Authors,
\* Affiliation, Abstract or Keywords has no numeral and does not advance the count.
Thm_C12_SequentialNumerals ==
    pc \in {"formatted", "scored"} =>
        \A i \in 1..Len(formatted.sections) :
            IF formatted.sections[i].type \in numbered_sections
            THEN /\ IsSome(formatted.sections[i].formatted_heading)
                 /\ StartsWith(Val(formatted.sections[i].formatted_heading),
                               RomanTable[NumberedRank(formatted.sections, i)] \o ". ")
                 /\ Upper(Val(formatted.sections[i].formatted_heading))
                       = Val(formatted.sections[i].formatted_heading)
                 /\ IsSome(formatted.sections[i].heading_font_rule)
                 /\ Val(formatted.sections[i].heading_font_rule).bold
            ELSE formatted.sections[i].type \in {"Title", "Authors", "Affiliation", "Abstract", "Keywords"}
                 => \/ formatted.sections[i].formatted_heading = None
                    \/ ~CarriesNumeral(Val(formatted.sections[i].formatted_heading))

Wit_C12_CountSkipsAbstract ==
    /\ pc = "formatted"
    /\ Types(formatted.sections) = <<"Abstract", "Keywords", "Introduction">>
    /\ formatted.sections[2].original_heading = Some("II. Keywords")
    /\ formatted.sections[2].formatted_heading = Some("INDEX TERMS")
    /\ formatted.sections[3].original_heading = Some("1. Introduction")
    /\ formatted.sections[3].formatted_heading = Some("I. INTRODUCTION")

EmptyEdits(e) ==
    /\ ~Truthy(e.author_name) /\ ~Truthy(e.author_email) /\ ~Truthy(e.affiliation)
    /\ (IsSome(e.keywords) => Val(e.keywords) = <<>>)
    /\ (IsSome(e.section_corrections) => DOMAIN Val(e.section_corrections) = {})

\* C13: apply_edits leaves the document it is given as it was (the same sections
\* with the same types, contents and word counts) whatever the edits are, and with
\* empty edits the document it returns has the same sections as its input: nothing
\* is generated.
Thm_C13_InputUntouched ==
    [][ApplyEdits =>
        /\ document' = document
        /\ (EmptyEdits(Val(edits)) => returned'.sections = document)]_vars

\* a correction retypes section 6 and a new Authors section is inserted in the
\* returned document, while the caller's document still has its two sections
Wit_C13_EditedCopy ==
    /\ pc = "edited"
    /\ Types(document) = <<"Title", "Unknown">>
    /\ Types(returned.sections) = <<"Title", "Authors", "Methodology">>
    /\ returned.sections[2].content = "Grace Hopper\ngrace@navy.mil"

\* C14 (as claimed): track_changes on a document and a copy of it returns no fixes,
\* whatever headings, formatted headings and font rules the sections carry.
Cex_C14_IdenticalNoFixes ==
    (pc = "tracked" /\ formatted.sections = document) => fixes = <<>>

\* the fractions p / q in lowest terms with 0 <= p <= q <= 10, and the float of each
Fractions ==
    {f \in (0..10) \X (1..10) :
        f[1] <= f[2] /\ ~\E k \in 2..f[2] : f[1] % k = 0 /\ f[2] % k = 0}

FloatOf == [f \in Fractions |-> Float(f[1], f[2])]

\* 2^-40, far above the error of a few float operations on numbers up to 1
Tolerance == ToFloat(1, Big(1), -40)

\* the floats x and y differ by less than Tolerance
Near(x, y) == FloatLess([FloatSub(x, y) EXCEPT !.sign = 1], Tolerance)

\* the fraction a float component stands for
Exact(x) == CHOOSE f \in Fractions : Near(x, FloatOf[f])

ExactBreakdown(b) == [c \in DOMAIN b |-> Exact(b[c])]

\* the weights in percent
Percent ==
    [required_sections |-> 30, section_order |-> 25, abstract_compliance |-> 20,
     heading_hierarchy |-> 15, formatting_consistency |-> 10]

\* the product of the denominators of the five components
Denominators(b) ==
    b.required_sections[2] * b.section_order[2] * b.abstract_compliance[2]
        * b.heading_hierarchy[2] * b.formatting_consistency[2]

\* the weighted sum of the components in points (0..100), as a numerator over d
Points(b, d) ==
    Percent.required_sections * b.required_sections[1] * (d \div b.required_sections[2])
    + Percent.section_order * b.section_order[1] * (d \div b.section_order[2])
    + Percent.abstract_compliance * b.abstract_compliance[1] * (d \div b.abstract_compliance[2])
    + Percent.heading_hierarchy * b.heading_hierarchy[1] * (d \div b.heading_hierarchy[2])
    + Percent.formatting_consistency * b.formatting_consistency[1]
          * (d \div b.formatting_consistency[2])

\* no other number of hundredths is nearer to the points n / d than h hundredths
NearestHundredths(h, n, d) ==
    /\ 2 * (h * d - 100 * n) <= d
    /\ 2 * (100 * n - h * d) <= d

\* score is the float of a number of hundredths, the one nearest to 100 x the weighted
\* sum of the components b
RoundedToHundredths(score, h, b) ==
    /\ score = Float(h, 100)
    /\ NearestHundredths(h, Points(b, Denominators(b)), Denominators(b))

HasOrderIssue(iss) == \E i \in 1..Len(iss) : iss[i].type = "section_out_of_order"

\* C15: the section-order component is 0.7 if the issue list holds a
\* section_out_of_order issue and 1.0 otherwise; the formatting-consistency component
\* is max(0, 1 - 0.2 x number of HIGH issues); and the score is 100 x (0.30 required
\* + 0.25 order + 0.20 abstract + 0.15 hierarchy + 0.10 consistency) rounded to two
\* decimals.
Thm_C15_ScoreDefinition ==
    pc = "scored" =>
        /\ compliance.breakdown.section_order
               = (IF HasOrderIssue(issues) THEN Float(7, 10) ELSE One)
        /\ Near(compliance.breakdown.formatting_consistency,
                IF HighCount(issues) >= 5 THEN Zero ELSE Float(5 - HighCount(issues), 5))
        /\ RoundedToHundredths(compliance.score, Hundredths(compliance.score),
                               ExactBreakdown(compliance.breakdown))

\* five HIGH issues and no order issue, three of seven required sections present:
\* 100 x (0.30 x 3/7 + 0.25 + 0.20 x 0.6 + 0.15 + 0) = 64.857..., scored 64.86
Wit_C15_RoundedScore ==
    /\ pc = "scored"
    /\ HighCount(issues) = 5
    /\ ~HasOrderIssue(issues)
    /\ compliance.breakdown.required_sections = Float(3, 7)
    /\ compliance.breakdown.abstract_compliance = Float(6, 10)
    /\ compliance.breakdown.heading_hierarchy = One
    /\ compliance.score = Float(6486, 100)

\* index of a type in the canonical order, 0 for Unknown
CanonicalIndex(t) ==
    Cardinality({k \in 1..Len(section_order) :
                    \E j \in k..Len(section_order) : section_order[j] = t})

\* positions of the sections that come after a section of a higher canonical index
OutOfOrder(sections) ==
    {i \in 1..Len(sections) :
        /\ sections[i].type # "Unknown"
        /\ \E j \in 1..(i - 1) :
              /\ sections[j].type # "Unknown"
              /\ CanonicalIndex(sections[j].type) > CanonicalIndex(sections[i].type)}

\* the k-th smallest element of a set of numbers
Nth(S, k) == CHOOSE i \in S : Cardinality({j \in S : j <= i}) = k

IsOrderIssue(i) == i.type = "section_out_of_order"

\* C16: detect_issues emits exactly one MEDIUM section_out_of_order issue for each
\* section (Unknown ones ignored) whose canonical index is strictly below the highest
\* canonical index among the sections before it, in document order, and none for any
\* other section; a document has no such issue exactly when its non-Unknown types are
\* in non-decreasing canonical order.
Thm_C16_OrderIssues ==
    pc = "done" =>
        /\ SelectSeq(issues, IsOrderIssue)
               = [k \in 1..Cardinality(OutOfOrder(returned)) |->
                     Issue("section_out_of_order",
                           returned[Nth(OutOfOrder(returned), k)].type, "medium")]
        /\ (SelectSeq(issues, IsOrderIssue) = <<>>) <=>
               \A i, j \in 1..Len(returned) :
                   (i < j /\ returned[i].type # "Unknown" /\ returned[j].type # "Unknown")
                       => CanonicalIndex(returned[i].type) <= CanonicalIndex(returned[j].type)

\* Results moved to the front of a paper: Abstract, Keywords, Introduction and
\* Methodology all fall below Results, although each of the last three follows the
\* section before it in canonical order
Wit_C16_RunningMaximum ==
    /\ pc = "done"
    /\ Types(returned) = <<"Results", "Abstract", "Keywords", "Introduction",
                           "Methodology", "Conclusion", "References">>
    /\ SelectSeq(issues, IsOrderIssue)
           = <<Issue("section_out_of_order", "Abstract", "medium"),
               Issue("section_out_of_order", "Keywords", "medium"),
               Issue("section_out_of_order", "Introduction", "medium"),
               Issue("section_out_of_order", "Methodology", "medium")>>

IsAbstractIssue(i) == i.type = "abstract_word_count_violation"

OutsideRange(s) ==
    s.type = "Abstract" /\ (s.word_count < 150 \/ s.word_count > 250)

\* C17 (as claimed): detect_issues emits one MEDIUM abstract_word_count_violation
\* issue if an Abstract with a word count outside [150,250] exists and none otherwise,
\* so at most one such issue however many sections are typed Abstract.
Cex_C17_OneAbstractIssue ==
    pc = "done" =>
        SelectSeq(issues, IsAbstractIssue)
            = (IF \E k \in 1..Len(returned) : OutsideRange(returned[k])
               THEN <<Issue("abstract_word_count_violation", "Abstract", "medium")>>
               ELSE <<>>)

IsHeadingIssue(i) == i.type = "missing_section_heading"

\* positions of the sections other than Title whose original heading is absent,
\* empty or only whitespace
Unheaded(sections) ==
    {i \in 1..Len(sections) :
        /\ sections[i].type # "Title"
        /\ (IsSome(sections[i].original_heading)
               => \A k \in 1..Len(Val(sections[i].original_heading)) :
                      Val(sections[i].original_heading)[k] = " ")}

\* C18 (as claimed): detect_issues emits exactly one LOW missing_section_heading
\* issue for each section of any type but Title (Authors, Affiliation and Unknown
\* included) without a non-blank original heading, and none for any other section.
Cex_C18_EveryTypeButTitle ==
    pc = "done" =>
        SelectSeq(issues, IsHeadingIssue)
            = [k \in 1..Cardinality(Unheaded(returned)) |->
                  Issue("missing_section_heading",
                        returned[Nth(Unheaded(returned), k)].type, "low")]

\* positions of the sections other than References in which convert_references
\* replaced an in-text marker
WithMarkers(before, after) ==
    {i \in 1..Len(before) : before[i].type # "References" /\ after[i].content # before[i].content}

\* C19 (as claimed): the numbers that replace in-text markers come from a map of
\* their own, apart from the numbering of the References entries: they are handed
\* out 1, 2, 3, ... in first-seen order, so the first section in which a marker was
\* replaced carries the number 1, however many entries the References section has.
Cex_C19_MarkersCountFromOne ==
    (pc = "converted" /\ WithMarkers(document, returned) # {})
        => Contains(returned[Least(WithMarkers(document, returned))].content, "[1]")

\* what a converter that has converted nothing yet makes of a document that has a
\* References section
FreshResult(sections) ==
    ConvertWith(sections, ReferencesIndex(sections),
                extract_citations(sections[ReferencesIndex(sections)].content))

\* a call on a converter that earlier calls left with a map that is not empty
ReusedCall == calls' = calls + 1 /\ citation_map # EmptyMap

\* C20 (as claimed): on a converter reused without reset() the numbers assigned in
\* the second document, to References entries and to in-text markers, differ from
\* those a fresh converter assigns to the same document.
Cex_C20_ReuseCorruptsNumbering ==
    [][(ReusedCall /\ ReferencesIndex(document') > 0
            /\ WithMarkers(document', returned') # {})
          => returned' # FreshResult(document').sections]_vars

\* C20 (amended): a converter reused without reset() returns for a document with a
\* References section the sections that a fresh converter returns, and is left with
\* the map and the counter that a fresh converter is left with; the state of the
\* first document only stays when the second document has no References section,
\* and then nothing is numbered.
Thm_C20_ReuseSameAsFresh ==
    [][ReusedCall =>
          IF ReferencesIndex(document') > 0
          THEN /\ returned' = FreshResult(document').sections
               /\ citation_map' = FreshResult(document').conv.citation_map
               /\ next_citation_number' = FreshResult(document').conv.next_citation_number
          ELSE /\ returned' = document'
               /\ citation_map' = citation_map]_vars

\* the third call in a row, on a document with one References entry and two in-text
\* markers: the markers are numbered 3 and 2 and the counter stands at 4, as on a
\* fresh converter
Wit_C20_SecondDocument ==
    /\ pc = "converted"
    /\ calls = 3
    /\ Types(document) = <<"Abstract", "References">>
    /\ returned[1].content = "Jones et al. [3] and [2] agree."
    /\ returned[2].content = "[1] Kim, S. (2018). Only. second line of it"
    /\ next_citation_number = 4

\* positions of the non-empty paragraphs
NonEmpty(paras) == {i \in 1..Len(paras) : Strip(paras[i].text) # ""}

\* positions of the non-empty paragraphs between the first non-empty paragraph (the
\* title) and the first heading-level-1 paragraph after it
PreHeading(paras) ==
    {i \in NonEmpty(paras) :
        /\ i > Least(NonEmpty(paras))
        /\ \A j \in (Least(NonEmpty(paras)) + 1)..i : ~is_heading(paras[j])}

\* the sections of a type that parse made without a heading
FrontOfType(sections, type) ==
    LET Front(s) == s.type = type /\ s.original_heading = None
    IN  SelectSeq(sections, Front)

\* the texts of the paragraphs at the positions S but the first, in order
RestTexts(paras, S) ==
    [k \in 1..(Cardinality(S) - 1) |-> Strip(paras[Nth(S, k + 1)].text)]

\* C21 (as claimed): parse makes the first non-empty paragraph the single Title
\* section; it makes an Authors section exactly when at least one non-empty
\* paragraph lies between the Title and the first heading-level-1 paragraph (its
\* content the first of them) and an Affiliation section exactly when at least two
\* do (its content the others, joined by newlines); no non-empty paragraph, no Title.
Cex_C21_FrontMatter ==
    pc = "parsed" =>
        IF NonEmpty(paragraphs) = {}
        THEN document = <<>>
        ELSE /\ Len(FrontOfType(document, "Title")) = 1
             /\ document[1].type = "Title"
             /\ document[1].content = Strip(paragraphs[Least(NonEmpty(paragraphs))].text)
             /\ Len(FrontOfType(document, "Authors"))
                    = (IF Cardinality(PreHeading(paragraphs)) >= 1 THEN 1 ELSE 0)
             /\ Len(FrontOfType(document, "Affiliation"))
                    = (IF Cardinality(PreHeading(paragraphs)) >= 2 THEN 1 ELSE 0)
             /\ Cardinality(PreHeading(paragraphs)) >= 1
                    => FrontOfType(document, "Authors")[1].content
                           = Strip(paragraphs[Least(PreHeading(paragraphs))].text)
             /\ Cardinality(PreHeading(paragraphs)) >= 2
                    => FrontOfType(document, "Affiliation")[1].content
                           = Join(RestTexts(paragraphs, PreHeading(paragraphs)), "\n")

Alphabet == "ABCDEFGHIJKLMNOPQRSTUVWXYZ"

\* C22 (as claimed): in the output of format the i-th subsection of every section,
\* whatever the type of the section, has the formatted heading "<i-th capital
\* letter>. <its original heading in title case>" and an italic heading FontRule
\* that is not bold.
Cex_C22_SubsectionLetters ==
    pc = "formatted" =>
        \A k \in 1..Len(formatted.sections) :
            \A i \in 1..Len(formatted.sections[k].subsections) :
                LET sub == formatted.sections[k].subsections[i]
                IN  /\ IsSome(sub.original_heading)
                    /\ sub.formatted_heading
                           = Some(Ch(Alphabet, i) \o ". " \o Title(Val(sub.original_heading)))
                    /\ IsSome(sub.heading_font_rule)
                    /\ Val(sub.heading_font_rule).italic
                    /\ ~Val(sub.heading_font_rule).bold

\* the section carries the content FontRule that the table gives for its type
CarriesTypeRule(s) == s.font_rule = Some(font_rules[s.type])

\* C23 (as claimed): after format every section and every nested subsection of the
\* output carries a content FontRule, the one the table gives for its type (Title
\* 24pt bold centered, ..., body types 10pt justified), so that two sections of one
\* type carry equal rules.
Cex_C23_FontRuleEverywhere ==
    pc = "formatted" =>
        \A k \in 1..Len(formatted.sections) :
            /\ CarriesTypeRule(formatted.sections[k])
            /\ \A i \in 1..Len(formatted.sections[k].subsections) :
                  CarriesTypeRule(formatted.sections[k].subsections[i])

\* word_count is the number of whitespace-separated tokens of the content
CountsItsWords(s) == s.word_count = WordCount(s.content)

\* C24 (as claimed): in every document state of the pipeline, the parsed document,
\* the document after grammar correction and the formatted document (after citation
\* conversion) included, the word_count of each section is the number of
\* whitespace-separated tokens of its content.
Cex_C24_WordCountOfContent ==
    pc = "done" =>
        /\ \A k \in 1..Len(document) : CountsItsWords(document[k])
        /\ \A k \in 1..Len(returned) : CountsItsWords(returned[k])
        /\ \A k \in 1..Len(formatted.sections) : CountsItsWords(formatted.sections[k])

\* positions of s where a whitespace-separated token starts
TokenStarts(s) ==
    {i \in 1..Len(s) : ~IsSpace(Ch(s, i)) /\ (i = 1 \/ IsSpace(Ch(s, i - 1)))}

\* s.split(): the whitespace-separated tokens of s, in order
Tokens(s) ==
    [k \in 1..Cardinality(TokenStarts(s)) |->
        SubSeq(s, Nth(TokenStarts(s), k),
               Nth(TokenStarts(s), k) + Span(s, Nth(TokenStarts(s), k), CharSet(s) \ SpaceSet) - 1)]

IsGrammarFix(f) == f.type = "grammar_correction"

\* indices of the after sections that have a before section of the same id whose
\* content has other tokens
Reworded(before, after) ==
    {k \in 1..Len(after) :
        /\ after[k].id \in Ids(before)
        /\ Tokens(SectionById(before, after[k].id).content) # Tokens(after[k].content)}

\* C25 (as claimed): track_changes emits a grammar_correction fix for a section
\* (present in both documents under one id) exactly when the whitespace-separated
\* tokens of its content differ between before and after; contents that differ only
\* in whitespace (leading, trailing or between words) yield no fix; the fix carries
\* the word counts before and after.
Cex_C25_GrammarFixIffTokensDiffer ==
    pc = "tracked" =>
        LET grammar == SelectSeq(fixes, IsGrammarFix)
            reworded == Reworded(document, formatted.sections)
        IN  /\ Len(grammar) = Cardinality(reworded)
            /\ \A n \in 1..Len(grammar) :
                  grammar[n] =
                      Fix(formatted.sections[Nth(reworded, n)].id, "grammar_correction",
                          Some(Str(WordCount(SectionById(document,
                                   formatted.sections[Nth(reworded, n)].id).content)) \o " words"),
                          Some(Str(WordCount(formatted.sections[Nth(reworded, n)].content))
                               \o " words"))

\* no two sections of the list carry the same id
DistinctIds(sections) ==
    \A i, j \in 1..Len(sections) : sections[i].id = sections[j].id => i = j

\* the 1-based index of the section carrying id, in a list with distinct ids
IndexOfId(sections, id) == CHOOSE i \in 1..Len(sections) : sections[i].id = id

IsReorderingFix(f) == f.type = "section_reordering"

\* C26: track_changes correlates sections by id: for documents whose sections carry
\* distinct ids it emits exactly one section_reordering fix for each id present in
\* both documents whose index differs between them, with original
\* "Position <before index + 1>" and formatted "Position <after index + 1>"
\* (0-based indices), and none for any other section.
Thm_C26_ReorderingById ==
    (pc = "tracked" /\ DistinctIds(document) /\ DistinctIds(formatted.sections)) =>
        LET reordering == SelectSeq(fixes, IsReorderingFix)
            shared == Ids(document) \cap Ids(formatted.sections)
            moved == {id \in shared :
                         IndexOfId(document, id) # IndexOfId(formatted.sections, id)}
        IN  /\ Len(reordering) = Cardinality(moved)
            /\ \A id \in moved :
                  \E n \in 1..Len(reordering) :
                      reordering[n] =
                          Fix(id, "section_reordering",
                              Some("Position " \o Str(IndexOfId(document, id))),
                              Some("Position " \o Str(IndexOfId(formatted.sections, id))))

\* section 1 moves from the first to the second place behind a new section 2, which
\* gets no fix
Wit_C26_MovedBehindNewSection ==
    /\ pc = "tracked"
    /\ IdList(document) = <<1>>
    /\ IdList(formatted.sections) = <<2, 1>>
    /\ SelectSeq(fixes, IsReorderingFix)
           = <<Fix(1, "section_reordering", Some("Position 1"), Some("Position 2"))>>

\* re.sub(r'^word\s+\d+:?\s*', '', s)
StripOrdinal(s, word) ==
    LET spaces == Span(s, Len(word) + 1, SpaceSet)
        digits == Span(s, Len(word) + 1 + spaces, DigitSet)
        colon == IF Ch(s, Len(word) + 1 + spaces + digits) = ":" THEN 1 ELSE 0
        rest == Len(word) + 1 + spaces + digits + colon
    IN  IF StartsWith(s, word) /\ spaces >= 1 /\ digits >= 1
        THEN From(s, rest + Span(s, rest, SpaceSet))
        ELSE s

\* the heading without its numeral or ordinal prefix, in each form the classifier strips
WithoutPrefix(heading) ==
    Strip(StripOrdinal(StripOrdinal(
        StripNumbering(StripNumbering(Lower(heading), RomanSet), DigitSet), "section"), "part"))

\* C27 (as claimed): the formatted heading of a numbered section with an original
\* heading is its Roman numeral, ". " and the heading text in upper case with any
\* existing prefix removed, in each form the classifier strips (Roman "IV. ",
\* Arabic "2. ", "Section N:", "Part N:"); the headings that are renamed to
\* CONCLUSION are left aside.
Cex_C27_EveryPrefixStripped ==
    pc \in {"formatted", "scored"} =>
        \A i \in 1..Len(formatted.sections) :
            (/\ formatted.sections[i].type \in numbered_sections
             /\ Truthy(formatted.sections[i].original_heading)
             /\ Val(formatted.sections[i].original_heading) \notin FinalThoughtsHeadings)
            => formatted.sections[i].formatted_heading
                  = Some(RomanTable[NumberedRank(formatted.sections, i)] \o ". "
                         \o Upper(WithoutPrefix(Val(formatted.sections[i].original_heading))))

\* C28: for every document produced by format the heading-hierarchy component of the
\* score is exactly 1.0: every output section of a needs-heading type (Abstract,
\* Keywords and the numbered types) carries a formatted heading that is not empty and
\* not blank, whether or not it had an original heading.
Thm_C28_HeadingHierarchyFull ==
    pc = "scored" =>
        /\ compliance.breakdown.heading_hierarchy = One
        /\ \A i \in 1..Len(formatted.sections) :
              formatted.sections[i].type \in sections_needing_headings
              => /\ IsSome(formatted.sections[i].formatted_heading)
                 /\ Strip(Val(formatted.sections[i].formatted_heading)) # ""

\* a Results section uploaded without a heading, an Abstract headed "Summary" and a
\* Title: the two sections that need a heading have one after format
Wit_C28_HeadingMadeFromType ==
    /\ pc = "scored"
    /\ Types(formatted.sections) = <<"Title", "Abstract", "Results">>
    /\ formatted.sections[3].original_heading = None
    /\ formatted.sections[3].formatted_heading = Some("I. RESULTS")
    /\ formatted.sections[2].formatted_heading = Some("ABSTRACT")
    /\ compliance.breakdown.heading_hierarchy = One

\* the keys under which the entries of the References section of the document are
\* numbered, in order
ReferenceKeys(sections) ==
    IF ReferencesIndex(sections) = 0 THEN <<>>
    ELSE LET citations == extract_citations(sections[ReferencesIndex(sections)].content)
         IN  [k \in 1..Len(citations) |-> Strip(Prefix100(citations[k]))]

DistinctKeys(keys) == \A i, j \in 1..Len(keys) : keys[i] = keys[j] => i = j

\* C29: after any sequence of convert_references and reset calls on one converter,
\* every number stored in citation_map lies in 1..next_citation_number-1, no two keys
\* map to the same number, and the citation count is at most next_citation_number-1,
\* with equality after a call on a document whose References entries have distinct
\* keys; a reset() leaves the map empty and next_citation_number 1.
Thm_C29_MapWithinCounter ==
    /\ [](/\ \A k \in DOMAIN citation_map : citation_map[k] \in 1..(next_citation_number - 1)
          /\ \A k1, k2 \in DOMAIN citation_map :
                citation_map[k1] = citation_map[k2] => k1 = k2
          /\ Cardinality(DOMAIN citation_map) <= next_citation_number - 1
          /\ (/\ pc = "converted"
              /\ ReferencesIndex(document) # 0
              /\ DistinctKeys(ReferenceKeys(document)))
             => Cardinality(DOMAIN citation_map) = next_citation_number - 1)
    /\ [][Reset => (citation_map' = EmptyMap /\ next_citation_number' = 1)]_vars

\* a later call on the document whose two References entries share one key and that
\* cites a third work in its text: two keys, numbered 2 and 3, and the counter at 4
Wit_C29_SharedKeyLeavesGap ==
    /\ pc = "converted"
    /\ calls >= 2
    /\ Len(ReferenceKeys(document)) = 2
    /\ ~DistinctKeys(ReferenceKeys(document))
    /\ {citation_map[k] : k \in DOMAIN citation_map} = {2, 3}
    /\ next_citation_number = 4

\* number of places of one section (its heading and the lines of its content) that
\* hold the text
PlacesIn(section, text) ==
    (IF section.original_heading = Some(text) THEN 1 ELSE 0)
    + Cardinality({k \in 1..Len(Split(section.content, "\n")) :
                      Split(section.content, "\n")[k] = text})

RECURSIVE PlacesFrom(_, _, _)
\* number of places of the sections from index i on, subsections included
PlacesFrom(sections, i, text) ==
    IF i > Len(sections) THEN 0
    ELSE PlacesIn(sections[i], text) + PlacesFrom(sections[i].subsections, 1, text)
         + PlacesFrom(sections, i + 1, text)

\* C30 (as claimed): parse loses no text: every non-empty paragraph of the file
\* appears exactly once in the parsed document (as the Title, in Authors or
\* Affiliation, as a heading or in a body), so each text is found in as many places
\* of the document as there are paragraphs holding it, also when a later paragraph
\* repeats the text of the title or of a pre-heading paragraph.
Cex_C30_NoTextLost ==
    pc = "parsed" =>
        \A i \in NonEmpty(paragraphs) :
            PlacesFrom(document, 1, Strip(paragraphs[i].text))
                = Cardinality({j \in NonEmpty(paragraphs) :
                                  Strip(paragraphs[j].text) = Strip(paragraphs[i].text)})

\* no text is held by two paragraphs
NoRepeatedText ==
    \A i, j \in NonEmpty(paragraphs) :
        Strip(paragraphs[i].text) = Strip(paragraphs[j].text) => i = j

====
